---- MODULE Spec2Model ----
(***************************************************************************)
(* A model of the nydus server (src/index.ts): the connection lifecycle,   *)
(* the subscription registry with its publish fan-out, and the invoke      *)
(* dispatch with its error conversion; of the codec of its frames          *)
(* (nydus-protocol), of the composition of route handlers (src/composer)   *)
(* and of the reconnection of the client library (src/client).             *)
(*                                                                         *)
(* Clients are the NydusClient objects, numbered in the order they were    *)
(* accepted.  Each carries the id the server's idGen gave it; the          *)
(* Immutable Set that holds a path's subscribers compares its elements     *)
(* with NydusClient.equals, i.e. by id, so the model keeps objects and     *)
(* ids apart.                                                              *)
(***************************************************************************)
EXTENDS Integers, Sequences, FiniteSets, Bags, TLC

(***************************************************************************)
(* Bounds of the model.                                                    *)
(***************************************************************************)
MaxClients == 2      \* connections accepted in one run
MaxPromises == 1     \* deferred initialData values pending at one time
MaxInvokes == 2      \* invocations outstanding at one time

(***************************************************************************)
(* Program constants.                                                      *)
(***************************************************************************)
protocolVersion == 3
WELCOME == 0
INVOKE == 1
RESULT == 2
ERROR == 3
PUBLISH == 4
PARSER_ERROR == 11

(***************************************************************************)
(* Small input sets.  One path needs percent-encoding on the wire.  An id  *)
(* is named by its rank among the distinct strings idGen has returned.     *)
(***************************************************************************)
Ids == 1 .. MaxClients
Paths == {"/hello", "/a b"}
Client == 1 .. MaxClients
Null == "<null>"

(***************************************************************************)
(* JavaScript values, tagged so that values of different types compare.    *)
(***************************************************************************)
Undefined == [k |-> "undefined"]
Str(s) == [k |-> "string", s |-> s]
Num(n) == [k |-> "number", n |-> n]
Obj(f) == [k |-> "object", f |-> f]
Data == {Str("hi")}
InvokeIds == {"27", "28"}
Patterns == {"/hello", "/:who"}

VARIABLES
  nclients,        \* number of connections accepted so far
  cid,             \* cid[c]: NydusClient.id
  readyState,      \* readyState[c]: conn.readyState
  csubs,           \* csubs[c]: NydusClient.subscriptions
  clients,         \* NydusServer.clients: id -> client
  subscriptions,   \* NydusServer.subscriptions: path -> set of clients
  promises,        \* pending promise-valued initialData: a bag
  last,            \* the operation that led to this state
  sent,            \* the calls of client.send / socket.send it made, in order
  emitted,         \* the server and client signals it emitted, in order
  removed,         \* history: the (client, path) pairs removed and not re-subscribed
  tracking,        \* which history a specification keeps (fixed by its Init)
  routes,          \* the router's routes, in the order registerRoute added them
  invocations,     \* invokes whose handler chain has not settled yet: a bag
  invokeErrorConverter,  \* options.invokeErrorConverter: "default" or "custom"
  owed,            \* history: invokes received minus replies sent, per client and id
  firstFrame,      \* history: firstFrame[c] is the first frame sent to client c
  nydusClient      \* the fields of a NydusClient of the client library

invokeVars == <<routes, invocations, invokeErrorConverter, owed>>

vars == <<nclients, cid, readyState, csubs, clients, subscriptions, promises,
          last, sent, emitted, removed, tracking, invokeVars, firstFrame,
          nydusClient>>

Accepted == 1 .. nclients

(***************************************************************************)
(* The wire format, frame by frame (nydus-protocol).  A frame on the wire  *)
(* is kept as its sections: the type digit, the id after "$", the          *)
(* percent-encoded path after "~", and the JSON text after "|".            *)
(***************************************************************************)
encodeURI(p) == CASE p = "/a b" -> "/a%20b" [] OTHER -> p

decodeURI(w) == CASE w = "/a%20b" -> "/a b" [] OTHER -> w

\* JSON.stringify leaves out the members of an object whose value is undefined;
\* the JSON text is kept as the value it denotes.
JSONstringify(v) ==
  IF v.k = "object"
    THEN Obj([m \in {x \in DOMAIN v.f : v.f[x] # Undefined} |-> v.f[m]])
    ELSE v

NoBody == [k |-> "empty"]

\* Faulty variant of encodeFrame: the id section is left out.
encodeFrameNoId(type, data, id, path) ==
  [type |-> type,
   id |-> Null,
   path |-> IF path # Null THEN encodeURI(path) ELSE Null,
   body |-> IF data = Undefined THEN NoBody ELSE JSONstringify(data)]

encodeFrame(type, data, id, path) ==
  [type |-> type,
   id |-> id,
   path |-> IF path # Null THEN encodeURI(path) ELSE Null,
   body |-> IF data = Undefined THEN NoBody ELSE JSONstringify(data)]

\* What the receiving side reads from a frame the server encoded.
decodeFrame(f) ==
  [type |-> f.type,
   id |-> f.id,
   path |-> IF f.path # Null THEN decodeURI(f.path) ELSE Null,
   data |-> IF f.body = NoBody THEN Undefined ELSE f.body]

(***************************************************************************)
(* Immutable's Set of clients: membership is by NydusClient.equals, i.e.   *)
(* by id.  Adding a client the set already holds returns the same set;     *)
(* adding another object with an equal id replaces the held one, which     *)
(* yields a new set.                                                       *)
(***************************************************************************)
equals(a, b) == a = b \/ cid[a] = cid[b]

\* Faulty variant of SetHas: every client counts as a member.
SetHasAlways(S, c) == TRUE

SetHas(S, c) == \E e \in S : equals(e, c)

SetAdd(S, c) == IF c \in S THEN S ELSE (S \ {e \in S : equals(e, c)}) \cup {c}

\* Faulty variant of SetDelete: nothing is deleted.
SetDeleteNothing(S, c) == S

SetDelete(S, c) == S \ {e \in S : equals(e, c)}

\* subscriptions.get(path), with the empty set standing for undefined where
\* the caller goes on to ask for membership only.
Subscribers(p) == IF p \in DOMAIN subscriptions THEN subscriptions[p] ELSE {}

\* Faulty variant of SetHas: every client counts as a member.
(***************************************************************************)
(* NydusClient.send: hands the encoded frame to the transport, which       *)
(* takes it only while the connection is open.                             *)
(***************************************************************************)
\* Faulty variant of send: the transport takes the frame whatever its state.
sendAnyway(c, encoded) == [to |-> c, frame |-> encoded, ok |-> TRUE]

\* Faulty variant of send: the frame goes to the first client accepted.
sendToFirst(c, encoded) == [to |-> 1, frame |-> encoded, ok |-> readyState[1] = "open"]

send(c, encoded) == [to |-> c, frame |-> encoded, ok |-> readyState[c] = "open"]

\* Faulty variant of SendAll: stops after the first subscriber.
SendFirst(S, packet) ==
  IF S = {} THEN <<>>
  ELSE <<send(CHOOSE x \in S : \A y \in S : x <= y, packet)>>

RECURSIVE SendAll(_, _)
SendAll(S, packet) ==
  IF S = {} THEN <<>>
  ELSE LET c == CHOOSE x \in S : \A y \in S : x <= y
       IN <<send(c, packet)>> \o SendAll(S \ {c}, packet)

Promise == [k |-> "promise"]

\* The record of a turn of the event loop in which no operation ran.
Idle == [op |-> "idle"]

EmptyMap == [j \in {} |-> {}]

MapSet(m, key, v) == [j \in DOMAIN m \cup {key} |-> IF j = key THEN v ELSE m[j]]

\* History: the frames of an operation, in the order sent, each the first of
\* its client unless an earlier one was.
NoFrame == [k |-> "none"]

RECURSIVE First(_, _)
First(ff, frames) ==
  IF frames = <<>> THEN ff
  ELSE LET x == Head(frames) IN
       First(IF ff[x.to] = NoFrame THEN [ff EXCEPT ![x.to] = x.frame] ELSE ff,
             Tail(frames))

\* No client of the client library has been constructed.
NoClient == [k |-> "none"]

Start ==
  /\ nclients = 0
  /\ cid = [c \in Client |-> Null]
  /\ readyState = [c \in Client |-> "none"]
  /\ csubs = [c \in Client |-> {}]
  /\ clients = EmptyMap
  /\ subscriptions = EmptyMap
  /\ promises = EmptyBag
  /\ last = Idle
  /\ sent = <<>>
  /\ emitted = <<>>
  /\ removed = {}
  /\ routes = <<>>
  /\ invocations = EmptyBag
  /\ owed = [c \in Client, i \in InvokeIds |-> 0]
  /\ firstFrame = [c \in Client |-> NoFrame]
  /\ nydusClient = NoClient

Init == Start /\ tracking = {} /\ invokeErrorConverter = "default"

(***************************************************************************)
(* Connection lifecycle.                                                   *)
(***************************************************************************)
\* cuid, the default idGen: an id no earlier call returned.
idGen == {nclients + 1}

onConnection(i) ==
  /\ nclients < MaxClients
  /\ LET c == nclients + 1 IN
     /\ nclients' = c
     /\ cid' = [cid EXCEPT ![c] = i]
     /\ readyState' = [readyState EXCEPT ![c] = "open"]
     /\ clients' = MapSet(clients, i, c)
     /\ sent' = <<[to |-> c,
                   frame |-> encodeFrame(WELCOME, Num(protocolVersion), Null, Null),
                   ok |-> TRUE]>>
     /\ emitted' = <<[sig |-> "connection", client |-> c]>>
     /\ last' = [op |-> "onConnection", client |-> c]
  /\ UNCHANGED <<csubs, subscriptions, promises, removed, tracking, nydusClient, invokeVars>>
  /\ firstFrame' = First(firstFrame, sent')

\* Faulty variant of onDisconnect: leaves the registry as it is.
onDisconnectKeeps(c) == subscriptions

\* Faulty variant of sendThenEmit: the connection signal is emitted before the
\* Welcome frame is sent.
emitThenSend(frames, listenerFrames) == listenerFrames \o frames

\* The last two statements of onConnection: the frames it sends come before
\* those the listeners of the signal it then emits send.
sendThenEmit(frames, listenerFrames) == frames \o listenerFrames

\* onConnection with a connection listener that subscribes the new client to
\* path p with initial data d, as the listeners of the tests do.
onConnectionListening(i, p, d) ==
  /\ nclients < MaxClients
  /\ LET c == nclients + 1 IN
     /\ nclients' = c
     /\ cid' = [cid EXCEPT ![c] = i]
     /\ readyState' = [readyState EXCEPT ![c] = "open"]
     /\ clients' = MapSet(clients, i, c)
     /\ subscriptions' = MapSet(subscriptions, p,
                               {e \in Subscribers(p) : cid[e] # i} \cup {c})
     /\ csubs' = [csubs EXCEPT ![c] = @ \cup {p}]
     /\ sent' = sendThenEmit(
                  <<[to |-> c,
                     frame |-> encodeFrame(WELCOME, Num(protocolVersion), Null, Null),
                     ok |-> TRUE]>>,
                  IF d = Undefined THEN <<>>
                  ELSE <<[to |-> c, frame |-> encodeFrame(PUBLISH, d, Null, p),
                          ok |-> TRUE]>>)
     /\ emitted' = <<[sig |-> "connection", client |-> c]>>
     /\ last' = [op |-> "onConnection", client |-> c,
                 listener |-> [path |-> p, data |-> d]]
  /\ firstFrame' = First(firstFrame, sent')
  /\ UNCHANGED <<promises, removed, tracking, nydusClient, invokeVars>>

\* The loop of onDisconnect: every path of client.subscriptions is updated
\* with s => s?.delete(client); a path with no entry stays without one.
onDisconnect(c) ==
  [p \in DOMAIN subscriptions |->
     IF p \in csubs[c] THEN SetDelete(subscriptions[p], c) ELSE subscriptions[p]]

\* History: a pending promise remembers that its client has been unsubscribed
\* from its path since the subscribeClient call that took it.
MarkUnsubscribed(B, hit(_)) ==
  IF "unsub" \in tracking
    THEN BagOfAll(LAMBDA pr : IF hit(pr) THEN [pr EXCEPT !.unsub = TRUE] ELSE pr, B)
    ELSE B

\* History: the pairs removed by an unsubscribe or a disconnect.
Remove(S) == IF "removed" \in tracking THEN removed \cup S ELSE removed

handleClose(c) ==
  /\ c \in Accepted
  /\ readyState[c] \in {"open", "closing"}
  /\ readyState' = [readyState EXCEPT ![c] = "closed"]
  /\ subscriptions' = onDisconnect(c)
  /\ emitted' = <<[sig |-> "close", client |-> c]>>
  /\ sent' = <<>>
  /\ last' = [op |-> "handleClose", client |-> c]
  /\ removed' = Remove({<<c, p>> : p \in {q \in Paths : c \in Subscribers(q)}})
  /\ promises' = MarkUnsubscribed(promises, LAMBDA pr : pr.client = c)
  /\ UNCHANGED <<nclients, cid, csubs, clients, tracking, nydusClient, firstFrame, invokeVars>>

\* Faulty variant of connClose: the connection is left open.
connCloseNothing(rs, c) == rs

\* conn.close(): an open connection starts closing; its close event follows.
connClose(rs, c) == IF rs[c] = "open" THEN [rs EXCEPT ![c] = "closing"] ELSE rs

\* Faulty variant of CloseEach: no connection is asked to close.
CloseNone(rs, S) == rs

RECURSIVE CloseEach(_, _)
CloseEach(rs, S) ==
  IF S = {} THEN rs
  ELSE LET c == CHOOSE x \in S : TRUE IN CloseEach(connClose(rs, c), S \ {c})

\* NydusServer.close: closes every client of the clients map, clears the map
\* and closes the engine, which closes every connection it still holds.
close ==
  /\ readyState' = CloseEach(CloseEach(readyState, {clients[i] : i \in DOMAIN clients}),
                             Accepted)
  /\ clients' = EmptyMap
  /\ sent' = <<>>
  /\ emitted' = <<>>
  /\ last' = [op |-> "close"]
  /\ UNCHANGED <<nclients, cid, csubs, subscriptions, promises, removed, tracking, nydusClient,
                 firstFrame, invokeVars>>

(***************************************************************************)
(* The subscription registry.                                              *)
(***************************************************************************)
\* subscriptions.update(path, Set(), s => s.add(client))
subscribeUpdate(c, p) == MapSet(subscriptions, p, SetAdd(Subscribers(p), c))

\* Faulty variant of unsubscribeUpdate: drops the path's whole entry.
unsubscribeUpdateDropsPath(c, p) ==
  [q \in DOMAIN subscriptions \ {p} |-> subscriptions[q]]

\* subscriptions.update(path, s => s?.delete(client)): the entry keeps the set
\* the updater returns, also when that set is empty.
unsubscribeUpdate(c, p) ==
  IF p \in DOMAIN subscriptions
    THEN [subscriptions EXCEPT ![p] = SetDelete(subscriptions[p], c)]
    ELSE subscriptions

\* Faulty variant of subscribeClient: resolved initial data is not sent within
\* the call.
subscribeClientDefers(c, p, d) ==
  /\ c \in Accepted
  /\ d = Promise => BagCardinality(promises) < MaxPromises
  /\ LET newSubs == subscribeUpdate(c, p) IN
     IF newSubs = subscriptions
       THEN UNCHANGED <<subscriptions, csubs, promises>>
       ELSE /\ subscriptions' = newSubs
            /\ csubs' = [csubs EXCEPT ![c] = @ \cup {p}]
            /\ IF d = Promise
                 THEN promises' = promises (+)
                        SetToBag({[client |-> c, path |-> p, unsub |-> FALSE,
                                   overtaken |-> FALSE]})
                 ELSE UNCHANGED promises
  /\ sent' = <<>>
  /\ removed' = removed \ {<<c, p>>}
  /\ emitted' = <<>>
  /\ last' = [op |-> "subscribeClient", client |-> c, path |-> p, data |-> d]
  /\ UNCHANGED <<nclients, cid, readyState, clients, tracking, nydusClient, invokeVars>>
  /\ firstFrame' = First(firstFrame, sent')

\* d is Undefined (no initialData), a value, or Promise.
subscribeClient(c, p, d) ==
  /\ c \in Accepted
  /\ d = Promise => BagCardinality(promises) < MaxPromises
  /\ LET newSubs == subscribeUpdate(c, p) IN
     IF newSubs = subscriptions
       THEN /\ sent' = <<>>
            /\ UNCHANGED <<subscriptions, csubs, promises>>
       ELSE /\ subscriptions' = newSubs
            /\ csubs' = [csubs EXCEPT ![c] = @ \cup {p}]
            /\ IF d = Undefined
                 THEN sent' = <<>> /\ UNCHANGED promises
                 ELSE IF d = Promise
                   THEN /\ promises' = promises (+)
                              SetToBag({[client |-> c, path |-> p, unsub |-> FALSE,
                                         overtaken |-> FALSE]})
                        /\ sent' = <<>>
                   ELSE /\ sent' = <<send(c, encodeFrame(PUBLISH, d, Null, p))>>
                        /\ UNCHANGED promises
  /\ removed' = removed \ {<<c, p>>}
  /\ emitted' = <<>>
  /\ last' = [op |-> "subscribeClient", client |-> c, path |-> p, data |-> d]
  /\ UNCHANGED <<nclients, cid, readyState, clients, tracking, nydusClient, invokeVars>>
  /\ firstFrame' = First(firstFrame, sent')

\* The then-callback of a promise-valued initialData, resolved with v.
resolveInitialData(pr, v) ==
  /\ BagIn(pr, promises)
  /\ promises' = promises (-) SetToBag({pr})
  /\ sent' = IF SetHas(Subscribers(pr.path), pr.client) /\ v # Undefined
               THEN <<send(pr.client, encodeFrame(PUBLISH, v, Null, pr.path))>>
               ELSE <<>>
  /\ emitted' = <<>>
  /\ last' = [op |-> "resolveInitialData", client |-> pr.client, path |-> pr.path,
                data |-> v, unsub |-> pr.unsub, overtaken |-> pr.overtaken]
  /\ UNCHANGED <<nclients, cid, readyState, csubs, clients, subscriptions, removed,
                 tracking, nydusClient, invokeVars>>
  /\ firstFrame' = First(firstFrame, sent')

unsubscribeClient(c, p) ==
  /\ c \in Accepted
  /\ LET newSubs == unsubscribeUpdate(c, p) IN
     IF newSubs = subscriptions
       THEN /\ last' = [op |-> "unsubscribeClient", client |-> c, path |-> p, ret |-> FALSE]
            /\ UNCHANGED <<subscriptions, csubs>>
       ELSE /\ subscriptions' = newSubs
            /\ csubs' = [csubs EXCEPT ![c] = @ \ {p}]
            /\ last' = [op |-> "unsubscribeClient", client |-> c, path |-> p, ret |-> TRUE]
  /\ removed' = Remove(IF c \in Subscribers(p) THEN {<<c, p>>} ELSE {})
  /\ promises' = MarkUnsubscribed(promises, LAMBDA pr : pr.client = c /\ pr.path = p)
  /\ sent' = <<>>
  /\ emitted' = <<>>
  /\ UNCHANGED <<nclients, cid, readyState, clients, tracking, nydusClient, firstFrame, invokeVars>>

unsubscribeAll(p) ==
  /\ IF p \notin DOMAIN subscriptions
       THEN /\ last' = [op |-> "unsubscribeAll", path |-> p, ret |-> FALSE]
            /\ UNCHANGED <<subscriptions, csubs>>
       ELSE /\ csubs' = [c \in Client |->
                           IF c \in subscriptions[p] THEN csubs[c] \ {p} ELSE csubs[c]]
            /\ subscriptions' = [q \in DOMAIN subscriptions \ {p} |-> subscriptions[q]]
            /\ last' = [op |-> "unsubscribeAll", path |-> p, ret |-> TRUE]
  /\ removed' = Remove({<<c, p>> : c \in Subscribers(p)})
  /\ promises' = MarkUnsubscribed(promises, LAMBDA pr : pr.path = p)
  /\ sent' = <<>>
  /\ emitted' = <<>>
  /\ UNCHANGED <<nclients, cid, readyState, clients, tracking, nydusClient, firstFrame, invokeVars>>

\* History: a pending promise remembers that a frame of publish has gone to
\* its client on its path since the subscribeClient call that took it.
MarkOvertaken(B, frames, p) ==
  IF "order" \in tracking
    THEN BagOfAll(LAMBDA pr :
                    IF /\ pr.path = p
                       /\ \E k \in DOMAIN frames : frames[k].to = pr.client /\ frames[k].ok
                      THEN [pr EXCEPT !.overtaken = TRUE]
                      ELSE pr,
                  B)
    ELSE B

\* d is Undefined (no data) or a value.
publish(p, d) ==
  /\ sent' = IF p \notin DOMAIN subscriptions
               THEN <<>>
               ELSE SendAll(subscriptions[p], encodeFrame(PUBLISH, d, Null, p))
  /\ emitted' = <<>>
  /\ last' = [op |-> "publish", path |-> p, data |-> d]
  /\ promises' = MarkOvertaken(promises, sent', p)
  /\ UNCHANGED <<nclients, cid, readyState, csubs, clients, subscriptions,
                 removed, tracking, nydusClient, invokeVars>>
  /\ firstFrame' = First(firstFrame, sent')

(***************************************************************************)
(* Routes and the invoke dispatch.                                         *)
(***************************************************************************)
registerRoute(pathPattern) ==
  /\ routes' = Append(routes, pathPattern)
  /\ sent' = <<>>
  /\ emitted' = <<>>
  /\ last' = [op |-> "registerRoute", pattern |-> pathPattern]
  /\ UNCHANGED <<nclients, cid, readyState, csubs, clients, subscriptions, promises,
                 removed, tracking, nydusClient, firstFrame, invocations,
                 invokeErrorConverter, owed>>

\* The router: "/:who" and "/*" take any path of one segment, as both paths
\* are.
Matches(pattern, path) == pattern = path \/ pattern \in {"/:who", "/*"}

\* Faulty variant of match: the route registered last wins.
matchLast(path) ==
  IF \E k \in 1 .. Len(routes) : Matches(routes[k], path)
    THEN CHOOSE k \in 1 .. Len(routes) :
           /\ Matches(routes[k], path)
           /\ \A j \in (k + 1) .. Len(routes) : ~Matches(routes[j], path)
    ELSE 0

\* router.match(path): the index of the first route that matches, or 0.
match(path) ==
  IF \E k \in 1 .. Len(routes) : Matches(routes[k], path)
    THEN CHOOSE k \in 1 .. Len(routes) :
           /\ Matches(routes[k], path)
           /\ \A j \in 1 .. (k - 1) : ~Matches(routes[j], path)
    ELSE 0

\* Errors a handler may reject with.
InvokeError(message, status, body) ==
  [k |-> "error", message |-> Str(message), status |-> Num(status), body |-> body,
   stack |-> Str("Error: at handler")]

Error(message) ==
  [k |-> "error", message |-> Str(message), status |-> Undefined, body |-> Undefined,
   stack |-> Str("Error: at handler")]

Errors ==
  {InvokeError("Custom Error", 527, Undefined),
   InvokeError("Big error", 527, Obj([hello |-> Str("world")])),
   InvokeError("Unavailable", 500, Undefined),
   Error("Omg error")}

\* http.STATUS_CODES, at the codes the model uses.
STATUS_CODES(status) ==
  CASE status = 500 -> Str("Internal Server Error")
    [] status = 404 -> Str("Not Found")
    [] OTHER -> Undefined

\* Faulty variant of isInvokeError: no error is taken for an InvokeError.
isInvokeErrorNever(err) == FALSE

isInvokeError(err) == err.status.k = "number"

\* a ?? b
Coalesce(a, b) == IF a = Undefined THEN b ELSE a

\* Faulty variant of defaultErrorConverter: the message and the stack are
\* included in production mode too.
defaultErrorConverterLeaks(err, isDev) ==
  IF isInvokeError(err)
    THEN Obj([message |-> Coalesce(err.message, STATUS_CODES(err.status.n)),
              status |-> err.status, body |-> err.body])
    ELSE Obj([message |-> Coalesce(err.message, STATUS_CODES(500)),
              status |-> Num(500), body |-> err.stack])

\* Faulty variant of defaultErrorConverter: an error that is no InvokeError
\* is converted to a payload without a status.
defaultErrorConverterNoStatus(err, isDev) ==
  IF isInvokeError(err)
    THEN Obj([message |-> err.message, status |-> err.status, body |-> err.body])
    ELSE Obj([message |-> STATUS_CODES(500)])

defaultErrorConverter(err, isDev) ==
  LET status == IF isInvokeError(err) THEN err.status.n ELSE 500
      message == IF isInvokeError(err) \/ isDev THEN err.message ELSE STATUS_CODES(500)
      body == IF isInvokeError(err) THEN err.body
              ELSE IF isDev THEN Coalesce(Undefined, err.stack) ELSE Undefined
  IN Obj([message |-> Coalesce(message, STATUS_CODES(status)),
          status |-> Num(status),
          body |-> body])

\* Faulty variant of NOT_FOUND: another status.
NOT_FOUND_AS_500 == Obj([message |-> Str("Internal Server Error"), status |-> Num(500)])

NOT_FOUND == Obj([message |-> Str("Not Found"), status |-> Num(404)])

\* What a custom converter may do with an error: return a payload or throw.
Throws == [k |-> "throws"]

\* The error a throwing converter throws.
ConvertError == Error("Converter failed")

CustomConversions ==
  {Throws, Str("denied"), Obj([status |-> Num(500)]), Obj([status |-> Num(403)])}

\* History: the replies sent are taken off what is owed.
RECURSIVE Account(_, _)
Account(o, frames) ==
  IF frames = <<>> THEN o
  ELSE LET s == Head(frames) IN
       Account(IF s.frame.type \in {RESULT, ERROR}
                 THEN [o EXCEPT ![s.to, s.frame.id] = @ - 1]
                 ELSE o,
               Tail(frames))

\* The server that dispatches (this).
Server == "NydusServer"

\* The router's captures: route.params of a named parameter, route.splats of
\* a wildcard.
Segment(path) == CASE path = "/hello" -> "hello" [] path = "/a b" -> "a b"

Params(pattern, path) == IF pattern = "/:who" THEN {<<"who", Segment(path)>>} ELSE {}

Splats(pattern, path) == IF pattern = "/*" THEN <<Segment(path)>> ELSE <<>>

\* Faulty variant of initData: the path is the one invoked.
initDataInvokedPath(client, route, msg) ==
  [server |-> Server, client |-> client, path |-> msg.path,
   params |-> Params(routes[route], msg.path),
   splats |-> Splats(routes[route], msg.path), body |-> msg.data]

\* The context the handler chain of routes[route] is called with.
initData(client, route, msg) ==
  [server |-> Server, client |-> client, path |-> routes[route],
   params |-> Params(routes[route], msg.path),
   splats |-> Splats(routes[route], msg.path), body |-> msg.data]

\* Faulty variant of onInvoke: an invoke is dispatched only when no handler
\* chain is pending.
onInvokeSerial(client, msg) ==
  LET route == match(msg.path) IN
  IF route = 0
    THEN /\ sent' = <<send(client, encodeFrame(ERROR, NOT_FOUND, msg.id, Null))>>
         /\ UNCHANGED invocations
    ELSE /\ invocations = EmptyBag
         /\ invocations' = invocations (+)
              SetToBag({[client |-> client, msg |-> msg,
                         ctx |-> initData(client, route, msg)]})
         /\ sent' = <<>>

\* Faulty variant of onInvoke: an invoke no route matches is dropped silently.
onInvokeSilent(client, msg) ==
  IF match(msg.path) = 0
    THEN /\ sent' = <<>>
         /\ UNCHANGED invocations
    ELSE /\ BagCardinality(invocations) < MaxInvokes
         /\ invocations' = invocations (+)
              SetToBag({[client |-> client, msg |-> msg,
                         ctx |-> initData(client, match(msg.path), msg)]})
         /\ sent' = <<>>

onInvoke(client, msg) ==
  LET route == match(msg.path) IN
  IF route = 0
    THEN /\ sent' = <<send(client, encodeFrame(ERROR, NOT_FOUND, msg.id, Null))>>
         /\ UNCHANGED invocations
    ELSE /\ BagCardinality(invocations) < MaxInvokes
         /\ invocations' = invocations (+)
              SetToBag({[client |-> client, msg |-> msg,
                         ctx |-> initData(client, route, msg)]})
         /\ sent' = <<>>

\* Faulty variant of onMessage: a frame of a type the server does not take
\* is treated as an unparsable message.
onMessageStrict(c, decoded) ==
  /\ c \in Accepted
  /\ readyState[c] = "open"
  /\ IF decoded.type = INVOKE
       THEN /\ onInvoke(c, decoded)
            /\ owed' = Account([owed EXCEPT ![c, decoded.id] = @ + 1], sent')
            /\ emitted' = <<>>
            /\ UNCHANGED readyState
       ELSE /\ emitted' = <<[sig |-> "parserError", client |-> c, msg |-> decoded]>>
            /\ readyState' = connClose(readyState, c)
            /\ sent' = <<>>
            /\ UNCHANGED <<invocations, owed>>
  /\ last' = [op |-> "onMessage", client |-> c, msg |-> decoded,
              route |-> IF decoded.type = INVOKE /\ match(decoded.path) # 0
                          THEN routes[match(decoded.path)] ELSE Null]
  /\ UNCHANGED <<nclients, cid, csubs, clients, subscriptions, promises, removed,
                 tracking, nydusClient, routes, invokeErrorConverter>>
  /\ firstFrame' = First(firstFrame, sent')

\* NydusClient.onMessage, on the decoded message (an unparsable one comes with
\* its text, which the parserError signal carries).
onMessage(c, decoded) ==
  /\ c \in Accepted
  /\ readyState[c] = "open"
  /\ IF decoded.type = PARSER_ERROR
       THEN /\ emitted' = <<[sig |-> "parserError", client |-> c, msg |-> decoded.raw]>>
            /\ readyState' = connClose(readyState, c)
            /\ sent' = <<>>
            /\ UNCHANGED <<invocations, owed>>
       ELSE IF decoded.type = INVOKE
         THEN /\ onInvoke(c, decoded)
              /\ owed' = Account([owed EXCEPT ![c, decoded.id] = @ + 1], sent')
              /\ emitted' = <<>>
              /\ UNCHANGED readyState
         ELSE /\ sent' = <<>>
              /\ emitted' = <<>>
              /\ UNCHANGED <<readyState, invocations, owed>>
  /\ last' = [op |-> "onMessage", client |-> c, msg |-> decoded,
              route |-> IF decoded.type = INVOKE /\ match(decoded.path) # 0
                          THEN routes[match(decoded.path)] ELSE Null]
  /\ UNCHANGED <<nclients, cid, csubs, clients, subscriptions, promises, removed,
                 tracking, nydusClient, routes, invokeErrorConverter>>
  /\ firstFrame' = First(firstFrame, sent')

\* Faulty variant of Convert: invokeError is emitted for every object payload
\* that has a status.
ConvertAnyStatus(inv, err, isDev, custom) ==
  LET conv == IF invokeErrorConverter = "default"
                THEN defaultErrorConverter(err, isDev)
                ELSE custom
  IN IF conv = Throws
       THEN [result |-> Obj([status |-> Num(500), message |-> STATUS_CODES(500)]),
             signals |-> <<[sig |-> "error", err |-> ConvertError]>>]
       ELSE [result |-> conv,
             signals |-> IF conv.k = "object" /\ "status" \in DOMAIN conv.f
                           THEN <<[sig |-> "invokeError", err |-> err,
                                   client |-> inv.client, msg |-> inv.msg]>>
                           ELSE <<>>]

\* Faulty variant of Convert: a converter that throws takes the connection
\* down, which is signalled as a close.
ConvertClosing(inv, err, isDev, custom) ==
  LET conv == IF invokeErrorConverter = "default"
                THEN defaultErrorConverter(err, isDev)
                ELSE custom
  IN IF conv = Throws
       THEN [result |-> Obj([status |-> Num(500), message |-> STATUS_CODES(500)]),
             signals |-> <<[sig |-> "error", err |-> ConvertError],
                           [sig |-> "close", client |-> inv.client]>>]
       ELSE [result |-> conv, signals |-> <<>>]

\* Faulty variant of Convert: a throwing converter is not signalled.
ConvertUnsignalled(inv, err, isDev, custom) ==
  LET conv == IF invokeErrorConverter = "default"
                THEN defaultErrorConverter(err, isDev)
                ELSE custom
  IN IF conv = Throws
       THEN [result |-> Obj([status |-> Num(500), message |-> STATUS_CODES(500)]),
             signals |-> <<>>]
       ELSE [result |-> conv, signals |-> <<>>]

\* The conversion of a rejection in the catch callback: the payload to send and
\* the signals emitted.  custom is what the custom converter does with err.
Convert(inv, err, isDev, custom) ==
  LET conv == IF invokeErrorConverter = "default"
                THEN defaultErrorConverter(err, isDev)
                ELSE custom
  IN IF conv = Throws
       THEN [result |-> Obj([status |-> Num(500), message |-> STATUS_CODES(500)]),
             signals |-> <<[sig |-> "error", err |-> ConvertError]>>]
       ELSE [result |-> conv,
             signals |-> IF /\ conv.k = "object"
                            /\ "status" \in DOMAIN conv.f
                            /\ conv.f.status = Num(500)
                           THEN <<[sig |-> "invokeError", err |-> err,
                                   client |-> inv.client, msg |-> inv.msg]>>
                           ELSE <<>>]

\* The then-callback of onInvoke: the handler chain of inv fulfils with result.
invokeThen(inv, result) ==
  /\ BagIn(inv, invocations)
  /\ invocations' = invocations (-) SetToBag({inv})
  /\ sent' = <<send(inv.client, encodeFrame(RESULT, result, inv.msg.id, Null))>>
  /\ emitted' = <<>>
  /\ owed' = Account(owed, sent')
  /\ last' = [op |-> "invokeThen", client |-> inv.client, id |-> inv.msg.id,
              result |-> result, msg |-> inv.msg]
  /\ UNCHANGED <<nclients, cid, readyState, csubs, clients, subscriptions, promises,
                 removed, tracking, nydusClient, routes, invokeErrorConverter>>
  /\ firstFrame' = First(firstFrame, sent')

\* The catch-callback of onInvoke: the handler chain of inv rejects with err.
invokeCatch(inv, err, isDev, custom) ==
  /\ BagIn(inv, invocations)
  /\ invocations' = invocations (-) SetToBag({inv})
  /\ LET c == Convert(inv, err, isDev, custom) IN
     /\ sent' = <<send(inv.client, encodeFrame(ERROR, c.result, inv.msg.id, Null))>>
     /\ emitted' = c.signals
  /\ owed' = Account(owed, sent')
  /\ last' = [op |-> "invokeCatch", client |-> inv.client, id |-> inv.msg.id,
              err |-> err, isDev |-> isDev, custom |-> custom, msg |-> inv.msg]
  /\ UNCHANGED <<nclients, cid, readyState, csubs, clients, subscriptions, promises,
                 removed, tracking, nydusClient, routes, invokeErrorConverter>>
  /\ firstFrame' = First(firstFrame, sent')

(***************************************************************************)
(* The turn of the event loop in which an operation ran ends: the frames   *)
(* it wrote leave the write buffers, and the record of the turn is         *)
(* dropped.  Operations are observed one to a turn.                        *)
(***************************************************************************)
turnEnds ==
  /\ last # Idle
  /\ last' = Idle
  /\ sent' = <<>>
  /\ emitted' = <<>>
  /\ UNCHANGED <<nclients, cid, readyState, csubs, clients, subscriptions, promises,
                 removed, tracking, nydusClient, firstFrame, invokeVars>>

(***************************************************************************)
(* Specifications.  The application calls the registry operations on       *)
(* clients whose close event has not been processed yet, and registers a   *)
(* pattern once.                                                           *)
(***************************************************************************)
Live(c) == c \in Accepted /\ readyState[c] # "closed"

Turn == last = Idle

Connections ==
  \/ \E i \in idGen : Turn /\ onConnection(i)
  \/ \E c \in Client : Turn /\ handleClose(c)

Registry(InitialData) ==
  \/ \E c \in Client, p \in Paths, d \in InitialData :
        Turn /\ Live(c) /\ subscribeClient(c, p, d)
  \/ \E c \in Client, p \in Paths : Turn /\ Live(c) /\ unsubscribeClient(c, p)
  \/ \E p \in Paths : Turn /\ unsubscribeAll(p)

Publishing == \E p \in Paths, d \in Data \cup {Undefined} : Turn /\ publish(p, d)

Resolution ==
  \E pr \in BagToSet(promises), v \in Data \cup {Undefined} :
     Turn /\ resolveInitialData(pr, v)

\* The registry with resolved initial data, publishing and shutdown.
Next ==
  \/ Connections
  \/ Turn /\ close
  \/ Registry(Data \cup {Undefined})
  \/ Publishing
  \/ turnEnds

Spec == Init /\ [][Next]_vars

\* The same, keeping the history of removals.
InitRemoved == Start /\ tracking = {"removed"} /\ invokeErrorConverter = "default"

SpecRemoved == InitRemoved /\ [][Next]_vars

\* The registry with promise-valued initial data.
NextAsync ==
  \/ Connections
  \/ Registry({Undefined, Promise})
  \/ Resolution
  \/ turnEnds

InitAsync == Start /\ tracking = {"unsub"} /\ invokeErrorConverter = "default"

SpecAsync == InitAsync /\ [][NextAsync]_vars

\* The invoke dispatch.  An unparsable message is kept as its text; the
\* invokes with one id name one path, those with the other id the other path.
Invokes ==
  {[type |-> INVOKE, id |-> "27", path |-> "/hello", data |-> Str("hi")],
   [type |-> INVOKE, id |-> "28", path |-> "/a b", data |-> Str("hi")]}

Messages ==
  {[type |-> PARSER_ERROR, raw |-> "9|"]}
  \cup Invokes
  \cup {[type |-> t] : t \in {WELCOME, RESULT, ERROR, PUBLISH}}

\* The environment of a conversion: development mode matters to the default
\* converter only, the custom converter's behaviour to a custom one only.
Conversions ==
  IF invokeErrorConverter = "default"
    THEN {[isDev |-> d, custom |-> Throws] : d \in BOOLEAN}
    ELSE {[isDev |-> TRUE, custom |-> x] : x \in CustomConversions}

Registered == {routes[k] : k \in 1 .. Len(routes)}

NextInvoke ==
  \/ Connections
  \/ \E pattern \in Patterns \ Registered : Turn /\ registerRoute(pattern)
  \/ \E c \in Client, m \in Messages : Turn /\ onMessage(c, m)
  \/ \E inv \in BagToSet(invocations), v \in Data \cup {Undefined} :
        Turn /\ invokeThen(inv, v)
  \/ \E inv \in BagToSet(invocations), err \in Errors, e \in Conversions :
        Turn /\ invokeCatch(inv, err, e.isDev, e.custom)
  \/ turnEnds

\* options.invokeErrorConverter is given or left out at construction.
InitInvoke == Start /\ tracking = {} /\ invokeErrorConverter \in {"default", "custom"}

SpecInvoke == InitInvoke /\ [][NextInvoke]_vars

\* Inbound messages, parsable and not, with the transport's scheduling: a turn
\* ends, and a connection that conn.close() has set closing gets its close
\* event.
closeEvent(c) == Turn /\ readyState[c] = "closing" /\ handleClose(c)

NextInbound ==
  \/ Connections
  \/ Turn /\ routes = <<>> /\ registerRoute("/hello")
  \/ \E c \in Client, m \in Messages : Turn /\ onMessage(c, m)
  \/ \E inv \in BagToSet(invocations), v \in Data : Turn /\ invokeThen(inv, v)
  \/ turnEnds

InitInbound == Start /\ tracking = {} /\ invokeErrorConverter = "default"

SpecInbound ==
  /\ InitInbound
  /\ [][NextInbound]_vars
  /\ WF_vars(turnEnds)
  /\ \A c \in Client : SF_vars(closeEvent(c))

\* The whole server on one path and one route: connections with and without
\* a subscribing listener, subscriptions, publishing, and invokes that are
\* fulfilled, rejected or not found.
NextServer ==
  \/ Connections
  \/ \E i \in idGen, d \in Data : Turn /\ onConnectionListening(i, "/hello", d)
  \/ \E c \in Client : Turn /\ Live(c) /\ subscribeClient(c, "/hello", Undefined)
  \/ \E d \in Data : Turn /\ publish("/hello", d)
  \/ Turn /\ routes = <<>> /\ registerRoute("/hello")
  \/ \E c \in Client, m \in Invokes : Turn /\ onMessage(c, m)
  \/ \E inv \in BagToSet(invocations), v \in Data : Turn /\ invokeThen(inv, v)
  \/ \E inv \in BagToSet(invocations), e \in Conversions :
        Turn /\ invokeCatch(inv, Error("Omg error"), e.isDev, e.custom)
  \/ turnEnds

SpecServer == InitInvoke /\ [][NextServer]_vars

(***************************************************************************)
(* Properties.  A frame is read back with decodeFrame, as the client at    *)
(* the other end reads it.                                                 *)
(***************************************************************************)
FramesTo(frames, c) == SelectSeq(frames, LAMBDA x : x.to = c)

IsPublish(x, p, d) ==
  decodeFrame(x.frame) = [type |-> PUBLISH, id |-> Null, path |-> p, data |-> d]

IsReply(x) == x.frame.type \in {RESULT, ERROR}

\* C1: after any sequence of subscribeClient, unsubscribeClient and
\* unsubscribeAll calls on connected clients with distinct ids, a path p is in
\* c.subscriptions exactly when c is in the server's subscriber set of p.
C1_RegistryInvariant ==
  \A c \in Accepted, p \in Paths :
    Live(c) => (p \in csubs[c] <=> c \in Subscribers(p))

\* C1's case: unsubscribeAll has just emptied a path two connected clients
\* were subscribed to, one of which is still subscribed to the other path.
C1_Witness ==
  /\ last.op = "unsubscribeAll" /\ last.ret
  /\ \E c \in Accepted, d \in Accepted, q \in Paths :
       /\ c # d /\ Live(c) /\ Live(d)
       /\ q # last.path
       /\ q \in csubs[c] /\ csubs[d] = {}
       /\ cid[c] # cid[d]

\* C2: publish(p, d) sends exactly one Publish frame with path p and body d to
\* every client subscribed to p and nothing to any other client, nothing at all
\* when p has no subscribers, and changes neither the registry nor any
\* client's subscription set.
C2_PublishFansOut ==
  [][last'.op = "publish" =>
       /\ subscriptions' = subscriptions
       /\ csubs' = csubs
       /\ \A c \in Client :
            LET frames == FramesTo(sent', c) IN
            IF c \in Subscribers(last'.path)
              THEN /\ Len(frames) = 1
                   /\ IsPublish(frames[1], last'.path, last'.data)
              ELSE frames = <<>>]_vars

\* C2's case: a publish with data to a path one of two connected clients is
\* subscribed to.
C2_Witness ==
  /\ last.op = "publish" /\ last.data # Undefined
  /\ Len(sent) = 1 /\ sent[1].ok
  /\ \E c \in Accepted : Live(c) /\ c \notin Subscribers(last.path)

\* C3: once c has been removed from p by unsubscribeClient(c, p), by
\* unsubscribeAll(p) or by c's disconnect, and not subscribed to p again, no
\* publish(p, ...) sends a frame to c.
C3_NoPublishAfterRemoval ==
  last.op = "publish" =>
    \A k \in 1 .. Len(sent) : <<sent[k].to, last.path>> \notin removed

\* C3's case: a publish to a path that one client was removed from and that
\* another client is still subscribed to.
C3_Witness ==
  /\ last.op = "publish"
  /\ sent # <<>>
  /\ \E c \in Accepted : <<c, last.path>> \in removed

\* C4: subscribeClient(c, p, d) with a resolved d subscribes c and sends one
\* Publish(p, d), to c alone, when c was not subscribed to p; it changes
\* nothing and sends nothing when c was.
C4_SubscribeResolved ==
  [][last'.op = "subscribeClient" /\ last'.data \in Data =>
       LET c == last'.client
           p == last'.path
       IN IF c \notin Subscribers(p)
            THEN /\ p \in DOMAIN subscriptions'
                 /\ c \in subscriptions'[p]
                 /\ p \in csubs'[c]
                 /\ Len(sent') = 1
                 /\ sent'[1].to = c
                 /\ IsPublish(sent'[1], p, last'.data)
            ELSE /\ subscriptions' = subscriptions
                 /\ csubs' = csubs
                 /\ sent' = <<>>]_vars

\* C4's case: the second accepted client has just been subscribed, with
\* data, to a path the first is subscribed to.
C4_Witness ==
  /\ last.op = "subscribeClient" /\ last.data \in Data
  /\ last.client = 2
  /\ 1 \in Subscribers(last.path)
  /\ Len(sent) = 1 /\ sent[1].ok

\* C5: subscribeClient(c, p, promise) sends nothing at the call; when the
\* promise resolves with v, Publish(p, v) is sent to c, and to c only, exactly
\* when c is then in the subscriber set of p and v is defined.
C5_PromiseInitialData ==
  [][/\ last'.op = "subscribeClient" /\ last'.data = Promise => sent' = <<>>
     /\ last'.op = "resolveInitialData" =>
          LET c == last'.client
              p == last'.path
              v == last'.data
          IN IF c \in Subscribers(p) /\ v # Undefined
               THEN /\ Len(sent') = 1
                    /\ sent'[1].to = c
                    /\ IsPublish(sent'[1], p, v)
               ELSE sent' = <<>>]_vars

\* C5's case: a promise resolves with a value while its client is subscribed
\* next to another subscriber of the path.
C5_Witness ==
  /\ last.op = "resolveInitialData" /\ last.data # Undefined
  /\ ~last.unsub
  /\ Len(sent) = 1
  /\ \E d \in Subscribers(last.path) : d # last.client

\* C6: if c is unsubscribed from p after subscribeClient(c, p, promise) and
\* before the promise resolves, the resolved data is never sent to c, whatever
\* registry operations come in between.
C6_UnsubscribeCancelsInitialData ==
  last.op = "resolveInitialData" /\ last.unsub => sent = <<>>

\* The number of pending handler chains started by invokes of client c with id i.
Pending(c, i) ==
  LET S == {inv \in BagToSet(invocations) : inv.client = c /\ inv.msg.id = i}
  IN BagCardinality([inv \in S |-> invocations[inv]])

C8_ResultCarriesValue ==
  last.op = "invokeThen" =>
    /\ Len(sent) = 1
    /\ sent[1].to = last.client
    /\ sent[1].ok <=> readyState[last.client] = "open"
    /\ LET f == sent[1].frame IN
       /\ f.type = RESULT
       /\ f.id = last.id
       /\ f.path = Null
       /\ IF last.result = Undefined
            THEN f.body = NoBody
            ELSE decodeFrame(f).data = last.result

\* C8's case: a handler chain fulfilled with undefined for an open client.
C8_Witness ==
  /\ last.op = "invokeThen"
  /\ last.result = Undefined
  /\ sent # <<>> /\ sent[1].ok

\* C9: an invoke whose path no registered pattern matches is answered with
\* Error(id, {status: 404, message: "Not Found"}) and no other frame; no
\* handler runs and no signal is emitted.
C9_NotFound ==
  [][/\ last'.op = "onMessage"
     /\ last'.msg.type = INVOKE
     /\ \A k \in 1 .. Len(routes) : ~Matches(routes[k], last'.msg.path)
     =>
     /\ Len(sent') = 1
     /\ sent'[1].to = last'.client
     /\ decodeFrame(sent'[1].frame) =
          [type |-> ERROR, id |-> last'.msg.id, path |-> Null,
           data |-> Obj([status |-> Num(404), message |-> Str("Not Found")])]
     /\ emitted' = <<>>
     /\ invocations' = invocations]_vars

\* C9's case: an invoke of a path that the one registered route does not
\* match.
C9_Witness ==
  /\ last.op = "onMessage"
  /\ last.msg.type = INVOKE
  /\ routes # <<>>
  /\ last.route = Null
  /\ sent # <<>> /\ sent[1].frame.type = ERROR

\* C10: under the default converter, a rejection with an InvokeError of status
\* s, message m and body b is answered with Error(id, {status: s, message: m,
\* body: b}), the three passed through as they are (an absent body is absent).
C10_InvokeErrorPassedThrough ==
  /\ last.op = "invokeCatch"
  /\ invokeErrorConverter = "default"
  /\ last.err.status.k = "number"
  =>
  /\ Len(sent) = 1
  /\ sent[1].to = last.client
  /\ decodeFrame(sent[1].frame) =
       [type |-> ERROR, id |-> last.id, path |-> Null,
        data |-> IF last.err.body = Undefined
                   THEN Obj([status |-> last.err.status, message |-> last.err.message])
                   ELSE Obj([status |-> last.err.status, message |-> last.err.message,
                             body |-> last.err.body])]

\* C10's case: a rejection with an InvokeError that carries a body, in
\* production mode.
C10_Witness ==
  /\ last.op = "invokeCatch"
  /\ invokeErrorConverter = "default"
  /\ ~last.isDev
  /\ last.err.status = Num(527)
  /\ last.err.body # Undefined
  /\ sent # <<>> /\ sent[1].ok

\* The payload of the one frame an operation sent, as the client reads it.
Payload == decodeFrame(sent[1].frame).data

HasStatus(payload, n) ==
  /\ payload.k = "object"
  /\ "status" \in DOMAIN payload.f
  /\ payload.f.status = Num(n)

GenericRejection ==
  /\ last.op = "invokeCatch"
  /\ last.err.status = Undefined

GenericRejectionAnswered ==
  /\ Len(sent) = 1
  /\ sent[1].to = last.client
  /\ sent[1].frame.type = ERROR
  /\ sent[1].frame.id = last.id
  /\ HasStatus(Payload, 500)
  /\ emitted = <<[sig |-> "invokeError", err |-> last.err, client |-> last.client,
                  msg |-> last.msg]>>

\* C11, as stated: a rejection with a generic error (no status) is answered
\* with Error(id, payload), payload.status = 500, and invokeError is emitted
\* exactly once, with the error, the client and the invoke message.
C11_GenericErrorIs500 == GenericRejection => GenericRejectionAnswered

\* C11, amended: the same under the default error converter.
C11_GenericErrorIs500ByDefault ==
  GenericRejection /\ invokeErrorConverter = "default" => GenericRejectionAnswered

\* C11's case: a generic error rejected the invoke of the percent-encoded
\* path, in production mode under the default converter, the client open.
C11_Witness ==
  /\ GenericRejection
  /\ invokeErrorConverter = "default"
  /\ ~last.isDev
  /\ last.msg.path = "/a b"
  /\ sent # <<>> /\ sent[1].ok

C14_WelcomeFirst ==
  /\ \A c \in Client :
       IF c \in Accepted
         THEN decodeFrame(firstFrame[c]) =
                [type |-> WELCOME, id |-> Null, path |-> Null, data |-> Num(3)]
         ELSE firstFrame[c] = NoFrame
  /\ last.op = "onConnection" =>
       /\ cid[last.client] \in DOMAIN clients
       /\ clients[cid[last.client]] = last.client
       /\ sent # <<>>
       /\ sent[1].to = last.client
       /\ sent[1].frame.type = WELCOME
       /\ emitted = <<[sig |-> "connection", client |-> last.client]>>

\* C14's case: the connection listener subscribed the new client with initial
\* data, so that a Publish frame follows the Welcome frame within the step.
C14_Witness ==
  /\ last.op = "onConnection"
  /\ Len(sent) = 2
  /\ sent[2].frame.type = PUBLISH
  /\ sent[2].to = last.client

\* C15: when an inbound message decodes to ParserError, the server emits
\* parserError with the client and the message text and closes the client's
\* transport; no handler chain is started and no frame is sent for the
\* message; the closing connection then gets its close event, whose handler
\* does the disconnect teardown.
C15_ParserErrorCloses ==
  /\ [][last'.op = "onMessage" /\ last'.msg.type = PARSER_ERROR =>
          /\ emitted' = <<[sig |-> "parserError", client |-> last'.client,
                           msg |-> last'.msg.raw]>>
          /\ readyState'[last'.client] = "closing"
          /\ sent' = <<>>
          /\ invocations' = invocations
          /\ owed' = owed]_vars
  /\ \A c \in Client : readyState[c] = "closing" ~> readyState[c] = "closed"

\* C15's case: an unparsable message arrived from a client with a pending
\* handler chain.
C15_Witness ==
  /\ last.op = "onMessage"
  /\ last.msg.type = PARSER_ERROR
  /\ readyState[last.client] = "closing"
  /\ \E inv \in BagToSet(invocations) : inv.client = last.client

InClients(c) == cid[c] \in DOMAIN clients /\ clients[cid[c]] = c

\* C16: on the transport close of c the server's disconnect callback runs
\* before c's close signal is emitted: when a close listener runs, c is in no
\* path's subscriber set and has no entry in the clients map.
C16_TornDownBeforeCloseSignal ==
  last.op = "handleClose" =>
    /\ emitted = <<[sig |-> "close", client |-> last.client]>>
    /\ \A p \in Paths : last.client \notin Subscribers(p)
    /\ ~InClients(last.client)

\* C17: a client is in the clients map under its id once accepted, and has no
\* entry once its transport close has been processed.
C17_ClientsMapHoldsLiveClients ==
  /\ last.op = "onConnection" => InClients(last.client)
  /\ \A c \in Accepted : readyState[c] = "closed" => ~InClients(c)

\* C18: when the client's transport has closed before its handler chain
\* settles, the Result or Error send delivers no frame to anyone, signals no
\* error of its own (the signals are those of the conversion) and changes no
\* state of the server or of a client.
C18_ReplyToClosedClientDropped ==
  [][last'.op \in {"invokeThen", "invokeCatch"} /\ readyState[last'.client] = "closed" =>
       /\ \A k \in 1 .. Len(sent') : ~sent'[k].ok
       /\ IF last'.op = "invokeThen" THEN emitted' = <<>>
          ELSE \A k \in 1 .. Len(emitted') :
                 \/ emitted'[k].sig = "invokeError" /\ HasStatus(sent'[1].frame.body, 500)
                 \/ emitted'[k].sig = "error" /\ last'.custom = Throws
                                              /\ invokeErrorConverter = "custom"
       /\ readyState' = readyState
       /\ clients' = clients
       /\ subscriptions' = subscriptions
       /\ csubs' = csubs
       /\ routes' = routes]_vars

\* C18's case: a handler chain fulfilled after its client's close event, while
\* another client is open and subscribed.
C18_Witness ==
  /\ last.op = "invokeThen"
  /\ readyState[last.client] = "closed"
  /\ sent # <<>> /\ ~sent[1].ok
  /\ \E c \in Accepted : readyState[c] = "open" /\ c \in Subscribers("/hello")

AllClosed == \A c \in Accepted : readyState[c] = "closed"

\* C19: close() asks every client of the clients map to close and leaves the
\* map empty; once the close events have been processed no client is left in
\* any path's subscriber set, and a publish then sends nothing.
C19_CloseTearsDown ==
  [][/\ last'.op = "close" =>
          /\ clients' = EmptyMap
          /\ \A i \in DOMAIN clients : readyState'[clients[i]] # "open"
     /\ AllClosed' =>
          /\ \A p \in DOMAIN subscriptions' : subscriptions'[p] = {}
          /\ last'.op = "publish" => sent' = <<>>]_vars

\* C19's case: a publish to a path that had two subscribers, after close() and
\* both close events.
C19_Witness ==
  /\ last.op = "publish"
  /\ nclients = 2
  /\ AllClosed
  /\ clients = EmptyMap
  /\ last.path \in csubs[1] \cap csubs[2]

\* C20: unsubscribeClient(c, p) returns true exactly when c was subscribed to
\* p; it then removes c from p's subscribers and p from c.subscriptions;
\* otherwise it changes neither.  After the call c is not subscribed, so a
\* second call returns false.
C20_UnsubscribeClientReturns ==
  [][last'.op = "unsubscribeClient" =>
       LET c == last'.client
           p == last'.path
       IN /\ last'.ret <=> c \in Subscribers(p)
          /\ IF c \in Subscribers(p)
               THEN /\ subscriptions'[p] = subscriptions[p] \ {c}
                    /\ csubs'[c] = csubs[c] \ {p}
               ELSE /\ subscriptions' = subscriptions
                    /\ csubs' = csubs
          /\ p \in DOMAIN subscriptions' => c \notin subscriptions'[p]
          /\ p \notin csubs'[c]]_vars

\* C20's case: the call returned true and left another subscriber on the path.
C20_Witness ==
  /\ last.op = "unsubscribeClient"
  /\ last.ret
  /\ Subscribers(last.path) # {}
  /\ last.client \notin Subscribers(last.path)

\* C21: unsubscribeAll(p) returns true exactly when at least one client was
\* subscribed to p right before the call, and false otherwise; after the call
\* the registry has no entry for p and no client's subscription set holds p.
C21_UnsubscribeAllReturns ==
  [][last'.op = "unsubscribeAll" =>
       LET p == last'.path
       IN /\ last'.ret <=> Subscribers(p) # {}
          /\ p \notin DOMAIN subscriptions'
          /\ \A c \in Accepted : readyState[c] # "closed" => p \notin csubs'[c]]_vars

(***************************************************************************)
(* The codec on the text of a frame (nydus-protocol, encode and decode).   *)
(* A string is the sequence of its characters, so that the sections of a   *)
(* frame are found by scanning, as decode does.  The id and the path of a  *)
(* frame are such strings; one that is null or undefined is Absent.        *)
(***************************************************************************)
ID_LIMIT == 32
PATH_LIMIT == 1024
LAST_TYPE == PUBLISH

Absent == <<Null>>

parserError == [type |-> PARSER_ERROR]

\* The URIError that decodeURI throws, leaving decode as an exception.
URIError == [thrown |-> "URIError"]

JSON_ERROR == [k |-> "JSON_ERROR"]

JSONNull == [k |-> "null"]

\* n times the character ch.
Rep(ch, n) == [j \in 1 .. n |-> ch]

\* The characters of the strings the dispatch model keeps whole.
Text(s) ==
  CASE s = "27" -> <<"2", "7">>
    [] s = "28" -> <<"2", "8">>
    [] s = "/hello" -> <<"/", "h", "e", "l", "l", "o">>
    [] s = "/a b" -> <<"/", "a", " ", "b">>

Intern(t) == CHOOSE s \in InvokeIds \cup Paths : Text(s) = t

Digits == <<"0", "1", "2", "3", "4", "5", "6", "7", "8", "9">>

\* White space, which the conversion to a number takes for 0.
WhiteSpace == {" ", "\t", "\n"}

\* isNaN(type): the conversion yielded no number.
NaN == -1

\* +str[0]: the number a one-character string converts to.
ToNumber(ch) ==
  IF \E k \in 1 .. 10 : Digits[k] = ch
    THEN (CHOOSE k \in 1 .. 10 : Digits[k] = ch) - 1
    ELSE IF ch \in WhiteSpace THEN 0 ELSE NaN

\* str[i] and str.slice(a, b), with indices counted from 0.
At(str, i) == str[i + 1]

Slice(str, a, b) == SubSeq(str, a + 1, b)

RECURSIVE Concat(_, _, _)
Concat(parts, lo, hi) ==
  IF lo > hi THEN <<>>
  ELSE IF lo = hi THEN parts[lo]
  ELSE LET mid == (lo + hi) \div 2
       IN Concat(parts, lo, mid) \o Concat(parts, mid + 1, hi)

\* encodeURI leaves letters, digits, marks and the reserved characters as
\* they are and escapes every other character as the octets of its UTF-8
\* form.
Unescaped ==
  {"a", "b", "e", "h", "l", "o", "A", "C", "F", "G", "/", ":", "~", "$", "-", "*"}
  \cup {Digits[k] : k \in 1 .. 10}

\* Faulty variant of encodeURIChar: nothing is escaped.
encodeURICharRaw(ch) == <<ch>>

encodeURIChar(ch) ==
  CASE ch \in Unescaped -> <<ch>>
    [] ch = " " -> <<"%", "2", "0">>
    [] ch = "\"" -> <<"%", "2", "2">>
    [] ch = "%" -> <<"%", "2", "5">>
    [] ch = "|" -> <<"%", "7", "C">>

encodeURIChars(p) == Concat([j \in 1 .. Len(p) |-> encodeURIChar(p[j])], 1, Len(p))

\* The hex digits by value, in capitals and in small letters.
HexDigits == <<{"0"}, {"1"}, {"2"}, {"3"}, {"4"}, {"5"}, {"6"}, {"7"}, {"8"}, {"9"},
               {"A", "a"}, {"B", "b"}, {"C", "c"}, {"D", "d"}, {"E", "e"}, {"F", "f"}>>

IsHex(ch) == \E k \in 1 .. 16 : ch \in HexDigits[k]

HexValue(ch) == (CHOOSE k \in 1 .. 16 : ch \in HexDigits[k]) - 1

\* The octet of the escape that starts at position j of w.
Octet(w, j) == 16 * HexValue(w[j + 1]) + HexValue(w[j + 2])

\* The escapes decodeURI leaves in place: those of ; / ? : @ & = + $ , #
ReservedOctets == {59, 47, 63, 58, 64, 38, 61, 43, 36, 44, 35}

\* The character of an octet below 128.
Chr(octet) ==
  CASE octet = 32 -> " "
    [] octet = 34 -> "\""
    [] octet = 37 -> "%"
    [] octet = 124 -> "|"

\* decodeURI throws a URIError on "%" not followed by two hex digits and on
\* octets that are not UTF-8.  The strings of the model hold no continuation
\* octet (%80 to %BF), so an octet of 128 or more never completes a
\* character.
URIMalformed(w) ==
  \E j \in 1 .. Len(w) :
     /\ w[j] = "%"
     /\ \/ j + 2 > Len(w)
        \/ ~IsHex(w[j + 1])
        \/ ~IsHex(w[j + 2])
        \/ Octet(w, j) >= 128

\* The escape at position j of a well-formed w is replaced by its character.
Unescapes(w, j) == w[j] = "%" /\ Octet(w, j) \notin ReservedOctets

decodeURIChars(w) ==
  LET covered(j) == \/ j > 1 /\ Unescapes(w, j - 1)
                    \/ j > 2 /\ Unescapes(w, j - 2)
      kept == SelectSeq([j \in 1 .. Len(w) |-> j], LAMBDA j : ~covered(j))
  IN [k \in 1 .. Len(kept) |->
        IF Unescapes(w, kept[k]) THEN Chr(Octet(w, kept[k])) ELSE w[kept[k]]]

\* The JSON documents of the model and their texts.  A body that is none of
\* these texts is one JSON.parse rejects.
JSONValues == {Num(2), Num(protocolVersion), Str("hi"), Str("|"), JSONNull}

JSONtext(v) ==
  CASE v = Num(2) -> <<"2">>
    [] v = Num(protocolVersion) -> <<"3">>
    [] v = Str("hi") -> <<"\"", "h", "i", "\"">>
    [] v = Str("|") -> <<"\"", "|", "\"">>
    [] v = JSONNull -> <<"n", "u", "l", "l">>

tryParse(t) ==
  IF \E v \in JSONValues : JSONtext(v) = t
    THEN CHOOSE v \in JSONValues : JSONtext(v) = t
    ELSE JSON_ERROR

encode(type, data, id, path) ==
  <<Digits[type + 1]>>
  \o (IF id # Absent THEN <<"$">> \o id ELSE <<>>)
  \o (IF path # Absent THEN <<"~">> \o encodeURIChars(path) ELSE <<>>)
  \o (IF data = Undefined THEN <<"|">> ELSE <<"|">> \o JSONtext(data))

\* Faulty variant of validate: a Result or Error may carry a path.
validateNoPathRule(type, id, path, data) ==
  IF \/ type = WELCOME /\ (id # Absent \/ path # Absent \/ data # Num(protocolVersion))
     \/ type = INVOKE /\ (id = Absent \/ path = Absent)
     \/ type \in {RESULT, ERROR} /\ id = Absent
     \/ type = PUBLISH /\ (id # Absent \/ path = Absent)
    THEN parserError
    ELSE [type |-> type, id |-> id, path |-> path, data |-> data]

validate(type, id, path, data) ==
  IF \/ type = WELCOME /\ (id # Absent \/ path # Absent \/ data # Num(protocolVersion))
     \/ type = INVOKE /\ (id = Absent \/ path = Absent)
     \/ type = RESULT /\ (id = Absent \/ path # Absent)
     \/ type = ERROR /\ (id = Absent \/ path # Absent)
     \/ type = PUBLISH /\ (id # Absent \/ path = Absent)
    THEN parserError
    ELSE [type |-> type, id |-> id, path |-> path, data |-> data]

\* One of decode's two loops: from begin, the first position that holds a
\* delimiter ends the section; a position before it that lies more than
\* limit after begin makes the section too long; without a delimiter the
\* loop runs to the end of the string.
scan(str, begin, delimiters, limit) ==
  LET D == {j \in begin .. (Len(str) - 1) : At(str, j) \in delimiters}
      stop == IF D = {} THEN Len(str) ELSE CHOOSE j \in D : \A k \in D : j <= k
  IN [stop |-> stop,
      found |-> D # {},
      tooLong |-> \E j \in begin .. (stop - 1) : j - begin > limit]

decode(str) ==
  IF Len(str) < 2 THEN parserError
  ELSE LET type == ToNumber(At(str, 0)) IN
  IF type = NaN \/ type > LAST_TYPE THEN parserError
  ELSE LET hasId == At(str, 1) = "$"
           ids == scan(str, 2, {"~", "|"}, ID_LIMIT)
           id == IF hasId /\ ids.found THEN Slice(str, 2, ids.stop) ELSE Absent
           i1 == IF ~hasId THEN 2 ELSE IF ids.found THEN ids.stop + 1 ELSE Len(str)
       IN
  IF hasId /\ ids.tooLong THEN parserError
  ELSE IF hasId /\ (id = Absent \/ Len(id) = 0) THEN parserError
  ELSE LET hasPath == At(str, i1 - 1) = "~"
           ps == scan(str, i1, {"|"}, PATH_LIMIT)
           section == Slice(str, i1, ps.stop)
           i2 == IF ~hasPath THEN i1 ELSE IF ps.found THEN ps.stop + 1 ELSE Len(str)
       IN
  IF hasPath /\ ps.tooLong THEN parserError
  ELSE IF hasPath /\ ps.found /\ URIMalformed(section) THEN URIError
  ELSE LET path == IF hasPath /\ ps.found THEN decodeURIChars(section) ELSE Absent IN
  IF hasPath /\ (path = Absent \/ Len(path) = 0) THEN parserError
  ELSE IF At(str, i2 - 1) # "|" THEN parserError
  ELSE LET data == IF i2 < Len(str) THEN tryParse(Slice(str, i2, Len(str)))
                   ELSE Undefined
       IN IF data = JSON_ERROR THEN parserError ELSE validate(type, id, path, data)

(***************************************************************************)
(* The codec at work: frames that one end encodes and the other decodes,   *)
(* and strings that arrive as the messages of a connection.                *)
(***************************************************************************)
\* Ids and paths of frames: short ones, one that holds a delimiter, and ones
\* of a length about the limits of decode.
IdTexts ==
  {Text("27"), <<"2", "|", "7">>}
  \cup {Rep("a", n) : n \in (ID_LIMIT - 1) .. (ID_LIMIT + 2)}

PathTexts ==
  {Text("/hello"), Text("/a b"), <<"/", "%", "|">>}
  \cup {<<"/">> \o Rep("a", n) : n \in (PATH_LIMIT - 2) .. (PATH_LIMIT + 1)}
  \cup {<<"/">> \o Rep(" ", PATH_LIMIT \div 2)}

Bodies == {Undefined, Str("hi"), Str("|"), Num(protocolVersion)}

Frame(type, id, path, data) == [type |-> type, id |-> id, path |-> path, data |-> data]

\* The frames that respect the constraints of their type.
Frames ==
  {Frame(WELCOME, Absent, Absent, Num(protocolVersion))}
  \cup {Frame(INVOKE, id, path, d) : id \in IdTexts, path \in PathTexts, d \in Bodies}
  \cup {Frame(t, id, Absent, d) : t \in {RESULT, ERROR}, id \in IdTexts, d \in Bodies}
  \cup {Frame(PUBLISH, Absent, path, d) : path \in PathTexts, d \in Bodies}

\* Strings of fewer than two characters.
ShortTexts == {<<>>, <<"1">>, <<"|">>, <<" ">>}

\* Strings by their first character: no digit, white space, a digit past the
\* last type.
FirstCharTexts ==
  UNION {{<<f, "|">>, <<f, "|", "3">>, <<f, "$", "2", "7", "|">>,
          <<f, "~", "/", "a", "|">>} : f \in {"a", "-", "$", " ", "\t", "5", "9"}}

\* Every type with and without id, path and body, whatever its constraints.
Shapes ==
  {Frame(t, id, path, d) :
     t \in WELCOME .. PUBLISH, id \in {Absent, Text("27")},
     path \in {Absent, Text("/hello")},
     d \in {Undefined, Num(protocolVersion), Num(2), Str("hi")}}

IdSections == {<<>>, <<"a">>} \cup {Rep("a", n) : n \in (ID_LIMIT - 1) .. (ID_LIMIT + 2)}

IdSectionTexts ==
  UNION {{<<"2", "$">> \o s \o <<"|">>,
          <<"2", "$">> \o s,
          <<"1", "$">> \o s \o <<"~", "/", "a", "|">>} : s \in IdSections}

\* Path sections that are no percent-encoding, and ones that are.
BadEscapes ==
  {<<"/", "%">>, <<"/", "%", "2">>, <<"/", "%", "G", "0">>, <<"/", "%", "C", "0">>}

PathSections ==
  {<<>>, <<"/">>, <<"/", "a", "%", "2", "0", "b">>, <<"/", "a", "%", "2", "F", "b">>,
   <<"/", "a", "%", "2", "f", "b">>}
  \cup BadEscapes
  \cup {<<"/">> \o Rep("a", n) : n \in (PATH_LIMIT - 2) .. (PATH_LIMIT + 1)}

PathSectionTexts ==
  UNION {{<<"4", "~">> \o s \o <<"|">>,
          <<"4", "~">> \o s,
          <<"1", "$", "2", "7", "~">> \o s \o <<"|", "3">>} : s \in PathSections}

\* No "|" where the body starts, and bodies that are not JSON.
BodyTexts ==
  {<<"2", "7">>, <<"4", "/", "a", "|">>, <<"4", "~", "/", "a", "|", "{">>,
   <<"2", "$", "2", "7", "|", "h", "i">>}

WireTexts ==
  ShortTexts \cup FirstCharTexts \cup IdSectionTexts \cup PathSectionTexts \cup BodyTexts

\* decode applied to str, which is the encoding of frame or, with no frame,
\* a string from elsewhere.
decodes(str, frame) ==
  /\ last' = [op |-> "decode", str |-> str, frame |-> frame, ret |-> decode(str)]
  /\ sent' = <<>>
  /\ emitted' = <<>>
  /\ UNCHANGED <<nclients, cid, readyState, csubs, clients, subscriptions, promises,
                 removed, tracking, nydusClient, firstFrame, invokeVars>>

\* The message onMessage works on, from what decode returned for the text.
AsMessage(msg, decoded) ==
  IF decoded.type = PARSER_ERROR THEN [type |-> PARSER_ERROR, raw |-> msg]
  ELSE IF decoded.type = INVOKE
    THEN [type |-> INVOKE, id |-> Intern(decoded.id), path |-> Intern(decoded.path),
          data |-> decoded.data]
    ELSE [type |-> decoded.type]

\* NydusClient.onMessage on the text of a message.  An exception of decode
\* leaves the handler before it has done anything.
onMessageText(c, msg) ==
  IF decode(msg) = URIError
    THEN /\ c \in Accepted
         /\ readyState[c] = "open"
         /\ last' = [op |-> "onMessageThrew", client |-> c, text |-> msg]
         /\ sent' = <<>>
         /\ emitted' = <<>>
         /\ UNCHANGED <<nclients, cid, readyState, csubs, clients, subscriptions,
                        promises, removed, tracking, nydusClient, firstFrame, invokeVars>>
    ELSE onMessage(c, AsMessage(msg, decode(msg)))

\* The messages of a connection: unparsable ones, invokes, and other frames.
InboundTexts ==
  ShortTexts \cup FirstCharTexts \cup BodyTexts
  \cup {<<"4", "~">> \o s \o <<"|">> : s \in BadEscapes \cup {<<>>, <<"/">>}}
  \cup {encode(m.type, m.data, Text(m.id), Text(m.path)) : m \in Invokes}

NextCodec ==
  \/ Connections
  \/ \E str \in WireTexts : Turn /\ decodes(str, NoFrame)
  \/ \E f \in Frames \cup Shapes :
        Turn /\ decodes(encode(f.type, f.data, f.id, f.path), f)
  \/ \E c \in Client, msg \in InboundTexts : Turn /\ onMessageText(c, msg)
  \/ turnEnds

InitCodec == Start /\ tracking = {} /\ invokeErrorConverter = "default"

SpecCodec == InitCodec /\ [][NextCodec]_vars

(***************************************************************************)
(* Properties of the codec.                                                *)
(***************************************************************************)
\* The constraints of each type on the fields of a frame.
Respects(f) ==
  \/ f.type = WELCOME /\ f.id = Absent /\ f.path = Absent /\ f.data = Num(protocolVersion)
  \/ f.type = INVOKE /\ f.id # Absent /\ f.path # Absent
  \/ f.type \in {RESULT, ERROR} /\ f.id # Absent /\ f.path = Absent
  \/ f.type = PUBLISH /\ f.id = Absent /\ f.path # Absent

\* A frame has been encoded and the text decoded.
Transmitted == last.op = "decode" /\ last.frame # NoFrame

\* The id has 1 to 32 characters and none is a delimiter; the path has 1 to
\* 1024 characters once percent-encoded.
WithinLimits(f) ==
  /\ f.id # Absent =>
       /\ Len(f.id) \in 1 .. ID_LIMIT
       /\ \A j \in 1 .. Len(f.id) : f.id[j] \notin {"~", "|"}
  /\ f.path # Absent => Len(encodeURIChars(f.path)) \in 1 .. PATH_LIMIT

\* C22: for every (type, id, path, data) that respects the constraints of its
\* type, decode(encode(type, data, id, path)) is a frame with the same type,
\* id, path and data, never ParserError.
C22_RoundTrip ==
  Transmitted /\ Respects(last.frame) => last.ret = last.frame

\* C22, amended: the same for the frames whose id has 1 to 32 characters, none
\* of them "~" or "|", and whose percent-encoded path has 1 to 1024 characters.
C22_RoundTripWithinLimits ==
  Transmitted /\ Respects(last.frame) /\ WithinLimits(last.frame)
    => last.ret = last.frame

\* C22's case: an Invoke with an id of 32 characters and a path whose
\* characters are escaped on the wire came back as it was.
C22_Witness ==
  /\ Transmitted
  /\ last.frame.type = INVOKE
  /\ Len(last.frame.id) = ID_LIMIT
  /\ last.frame.path = <<"/", "%", "|">>
  /\ last.str # encode(INVOKE, last.frame.data, last.frame.id, Absent)
  /\ Len(last.str) > Len(last.frame.id) + Len(last.frame.path) + 4
  /\ last.ret = last.frame

\* C23: decode is total: for every string, one whose path section is no valid
\* percent-encoding included, it returns a frame or ParserError and raises no
\* exception, so that no inbound message leaves onMessage by an exception.
C23_DecodeTotal ==
  /\ last.op = "decode" => last.ret # URIError
  /\ last.op # "onMessageThrew"

\* C24: on a well-formed frame decode applies the rules of the type: Welcome
\* only with no id, no path and the protocol version as body; Invoke only with
\* id and path; Result and Error only with an id and no path; Publish only with
\* a path and no id; every other combination yields ParserError.
C24_PerTypeRules ==
  Transmitted /\ WithinLimits(last.frame) =>
    last.ret = IF Respects(last.frame) THEN last.frame ELSE parserError

\* C24's case: a Result that carries a path was rejected.
C24_Witness ==
  /\ Transmitted
  /\ last.frame.type = RESULT
  /\ last.frame.id # Absent
  /\ last.frame.path # Absent
  /\ last.ret = parserError

IsDigit(ch) == \E k \in 1 .. 10 : Digits[k] = ch

\* C25: decode returns ParserError for every string of fewer than 2
\* characters, every string whose first character is no decimal digit (white
\* space included) and every string whose first digit is greater than 4.
C25_BadFirstCharacter ==
  (/\ last.op = "decode"
   /\ \/ Len(last.str) < 2
      \/ ~IsDigit(last.str[1])
      \/ ToNumber(last.str[1]) > PUBLISH) => last.ret = parserError

\* C26: decode returns ParserError for every frame whose id section is empty
\* or longer than 32 characters and every frame whose path section is empty or
\* longer than 1024 characters; an id of 1 to 32 and a path of 1 to 1024
\* characters are not rejected for their length.
C26_SectionLengths ==
  last.op = "decode" =>
    /\ \A s \in IdSections :
         last.str = <<"2", "$">> \o s \o <<"|">> =>
           (last.ret = parserError <=> Len(s) = 0 \/ Len(s) > ID_LIMIT)
    /\ \A s \in PathSections \ BadEscapes :
         last.str = <<"4", "~">> \o s \o <<"|">> =>
           (last.ret = parserError <=> Len(s) = 0 \/ Len(s) > PATH_LIMIT)

(***************************************************************************)
(* Routing: several patterns that match one path, registered in any order, *)
(* and invokes with and without a body.                                    *)
(***************************************************************************)
RoutingPatterns == Patterns \cup {"/*"}

RoutingInvokes ==
  Invokes \cup {[type |-> INVOKE, id |-> "27", path |-> "/hello", data |-> Undefined]}

NextRouting ==
  \/ \E i \in idGen : Turn /\ onConnection(i)
  \/ \E pattern \in RoutingPatterns \ Registered : Turn /\ registerRoute(pattern)
  \/ \E c \in Client, m \in RoutingInvokes : Turn /\ onMessage(c, m)
  \/ \E inv \in BagToSet(invocations), v \in Data : Turn /\ invokeThen(inv, v)
  \/ turnEnds

InitRouting == Start /\ tracking = {} /\ invokeErrorConverter = "default"

SpecRouting == InitRouting /\ [][NextRouting]_vars

\* The routes that match a path, by their place in the list.
Matching(path) == {k \in 1 .. Len(routes) : Matches(routes[k], path)}

\* The invocations a step has started.
Started == {inv \in BagToSet(invocations') :
              CopiesIn(inv, invocations') > CopiesIn(inv, invocations)}

\* C27: an invoke on a path that several registered patterns match goes to the
\* handler chain of the pattern registered earliest and to no other; the list
\* of routes only grows at its end, so that registering further routes never
\* changes the route a matched path resolves to.
C27_FirstRouteWins ==
  [][/\ (last'.op = "onMessage" /\ Matching(last'.msg.path) # {}) =>
          /\ BagCardinality(invocations') = BagCardinality(invocations) + 1
          /\ \A inv \in Started :
               \E k \in Matching(last'.msg.path) :
                  /\ inv.ctx.path = routes[k]
                  /\ \A j \in Matching(last'.msg.path) : k <= j
     /\ Len(routes') >= Len(routes)
     /\ SubSeq(routes', 1, Len(routes)) = routes
     /\ \A path \in Paths :
          Matching(path) # {} =>
            \A k \in Matching(path) :
               (\A j \in Matching(path) : k <= j) => routes'[match(path)'] = routes[k]
    ]_vars

\* C27's case: three patterns match the path invoked, and the chain of the
\* first one registered, which is not the path itself, has been started.
C27_Witness ==
  /\ last.op = "onMessage"
  /\ last.msg.type = INVOKE
  /\ Cardinality(Matching(last.msg.path)) = 3
  /\ routes[1] # last.msg.path
  /\ \E inv \in BagToSet(invocations) :
        inv.client = last.client /\ inv.msg = last.msg /\ inv.ctx.path = routes[1]

\* C30: the context the first handler of the matched route is called with has
\* client = the invoking client, server = the dispatching server, path = the
\* registered pattern that matched, params and splats = the router's captures
\* for the invoked path, and body = the data of the Invoke frame.
C30_InvocationContext ==
  [][(last'.op = "onMessage" /\ Matching(last'.msg.path) # {}) =>
       /\ Started # {}
       /\ \A inv \in Started :
            /\ DOMAIN inv.ctx = {"server", "client", "path", "params", "splats", "body"}
            /\ inv.ctx.client = last'.client
            /\ inv.ctx.server = Server
            /\ inv.ctx.path = last'.route
            /\ inv.ctx.path \in Registered
            /\ Matches(inv.ctx.path, last'.msg.path)
            /\ inv.ctx.params = Params(last'.route, last'.msg.path)
            /\ inv.ctx.splats = Splats(last'.route, last'.msg.path)
            /\ inv.ctx.body = last'.msg.data]_vars

\* C30's case: the second client invoked "/a b" with a body, the pattern with
\* the named parameter matched, and the chain got the pattern, the capture and
\* the body.
C30_Witness ==
  /\ last.op = "onMessage"
  /\ last.client = 2
  /\ last.msg.path = "/a b"
  /\ \E inv \in BagToSet(invocations) :
        /\ inv.msg = last.msg
        /\ inv.ctx = [server |-> Server, client |-> 2, path |-> "/:who",
                      params |-> {<<"who", "a b">>}, splats |-> <<>>,
                      body |-> Str("hi")]

(***************************************************************************)
(* compose (src/composer): the handlers of a route folded into one         *)
(* function.  A handler is given by what it does with its data and its     *)
(* continuation:                                                           *)
(*   "return"        async () => value                                     *)
(*   "reject"        async () => { throw err }                             *)
(*   "throw"         () => { throw err }           (not async)             *)
(*   "next"          async (data, next) => next(data)                      *)
(*   "pass"          (data, next) => next(data)    (not async)             *)
(*   "nextWith"      async (data, next) => next(data.set('body', value))   *)
(*   "catch"         async: try { return await next(data) }                *)
(*                          catch { return caught }                        *)
(*   "nextThenThrow" async: await next(data); throw err                    *)
(*   "drop"          async: next(data); return value  (promise not awaited)*)
(* A call ends fulfilled, rejected, or thrown (an exception at the call    *)
(* site); calls lists the handlers called, in order, with their data.      *)
(***************************************************************************)
MaxHandlers == 3     \* handlers of one route

HandlerKinds ==
  {"return", "reject", "throw", "next", "pass", "nextWith", "catch",
   "nextThenThrow", "drop"}

Chains == UNION {[1 .. n -> HandlerKinds] : n \in 1 .. MaxHandlers}

\* The handlers that call their continuation, and those that raise.
Continuing == {"next", "pass", "nextWith", "catch", "nextThenThrow", "drop"}

Raising == {"reject", "throw", "nextThenThrow"}

Fulfilled(v) == [state |-> "fulfilled", value |-> v]

Rejected(e) == [state |-> "rejected", value |-> e]

Thrown(e) == [state |-> "thrown", value |-> e]

\* What an async function makes of the end of its body.
Async(outcome) == IF outcome.state = "thrown" THEN Rejected(outcome.value) ELSE outcome

\* The data a handler passes to its continuation.
Passed(kind, data) ==
  IF kind = "nextWith" THEN [data EXCEPT !.body = Str("changed")] ELSE data

\* Faulty variant of curNext: the continuation skips a handler.
curNextSkips(fns, i) == i + 2

\* The continuation handed to fns[i] calls the handler after it; past the
\* last one it is noop.
curNext(fns, i) == i + 1

\* next(data) for the function that calls fns[i]: the call of fns[i] with its
\* continuation.  The place Len(fns) + 1 is noop, which fulfils with
\* undefined.
RECURSIVE Call(_, _, _)
Call(fns, i, data) ==
  IF i > Len(fns)
    THEN [calls |-> <<[handler |-> Len(fns) + 1, data |-> data]>>,
          outcome |-> Fulfilled(Undefined)]
    ELSE
      LET kind == fns[i]
          me == <<[handler |-> i, data |-> data]>>
          r == Call(fns, curNext(fns, i), Passed(kind, data))
          failed == r.outcome.state \in {"rejected", "thrown"}
      IN CASE kind = "return" ->
                [calls |-> me, outcome |-> Fulfilled(Str("hi"))]
           [] kind = "reject" ->
                [calls |-> me, outcome |-> Rejected(Error("Omg error"))]
           [] kind = "throw" ->
                [calls |-> me, outcome |-> Thrown(Error("Omg error"))]
           [] kind \in {"next", "nextWith"} ->
                [calls |-> me \o r.calls, outcome |-> Async(r.outcome)]
           [] kind = "pass" ->
                [calls |-> me \o r.calls, outcome |-> r.outcome]
           [] kind = "catch" ->
                [calls |-> me \o r.calls,
                 outcome |-> IF failed THEN Fulfilled(Str("caught")) ELSE r.outcome]
           [] kind = "nextThenThrow" ->
                [calls |-> me \o r.calls,
                 outcome |-> IF failed THEN Rejected(r.outcome.value)
                             ELSE Rejected(Error("Omg error"))]
           [] kind = "drop" ->
                [calls |-> me \o r.calls,
                 outcome |-> IF r.outcome.state = "thrown"
                               THEN Rejected(r.outcome.value)
                               ELSE Fulfilled(Str("hi"))]

\* Faulty variant of composed: the function returned is not async.
composedNotAsync(fns, data) == Call(fns, 1, data)

\* compose(fns)(data): async data => next(data).
composed(fns, data) ==
  LET r == Call(fns, 1, data)
  IN [calls |-> r.calls, outcome |-> Async(r.outcome)]

\* A context, as onInvoke builds it.
Contexts ==
  {[server |-> Server, client |-> 1, path |-> "/hello", params |-> {},
    splats |-> <<>>, body |-> b] : b \in {Undefined, Str("hi")}}

\* The composed function of a chain is called.
composes(fns, data) ==
  /\ last' = [op |-> "compose", fns |-> fns, data |-> data, ret |-> composed(fns, data)]
  /\ sent' = <<>>
  /\ emitted' = <<>>
  /\ UNCHANGED <<nclients, cid, readyState, csubs, clients, subscriptions, promises,
                 removed, tracking, nydusClient, firstFrame, invokeVars>>

NextCompose ==
  \/ \E fns \in Chains, data \in Contexts : Turn /\ composes(fns, data)
  \/ turnEnds

InitCompose == Start /\ tracking = {} /\ invokeErrorConverter = "default"

SpecCompose == InitCompose /\ [][NextCompose]_vars

\* The n-th call was of a handler, not of noop.
OfHandler(n) == last.ret.calls[n].handler \in 1 .. Len(last.fns)

\* C28: h0 is called with the context given; h(k+1) is called only when hk
\* calls its continuation, and with the context hk passed; when hk returns
\* without calling its continuation no later handler runs; the continuation of
\* the last handler is a no-op that yields an empty value.
C28_ChainOrder ==
  last.op = "compose" =>
    LET fns == last.fns
        calls == last.ret.calls
    IN /\ calls[1] = [handler |-> 1, data |-> last.data]
       /\ \A n \in 2 .. Len(calls) :
            /\ OfHandler(n - 1)
            /\ fns[calls[n - 1].handler] \in Continuing
            /\ calls[n].handler = calls[n - 1].handler + 1
            /\ calls[n].data = Passed(fns[calls[n - 1].handler], calls[n - 1].data)
       /\ \A n \in 1 .. Len(calls) :
            OfHandler(n) /\ fns[calls[n].handler] \notin Continuing => n = Len(calls)
       /\ \A n \in 1 .. Len(calls) :
            OfHandler(n) /\ fns[calls[n].handler] \in Continuing => n < Len(calls)
       /\ (\A k \in 1 .. Len(fns) : fns[k] \in {"next", "pass", "nextWith"}) =>
            /\ calls[Len(calls)].handler = Len(fns) + 1
            /\ last.ret.outcome = Fulfilled(Undefined)

\* C28's case: three handlers, the first passes a changed context on, the
\* second passes it as it is, the third returns.
C28_Witness ==
  /\ last.op = "compose"
  /\ last.fns = <<"nextWith", "next", "return">>
  /\ Len(last.ret.calls) = 3
  /\ last.ret.calls[3].data.body = Str("changed")
  /\ last.ret.calls[3].data # last.data
  /\ last.ret.outcome = Fulfilled(Str("hi"))

\* The handlers called that raise, and whether a handler before place k is of
\* one of the kinds.
Raisers == {k \in 1 .. Len(last.fns) :
              /\ last.fns[k] \in Raising
              /\ \E n \in 1 .. Len(last.ret.calls) : last.ret.calls[n].handler = k}

Before(k, kinds) == \E j \in 1 .. (k - 1) : last.fns[j] \in kinds

\* C29: the outcome of the chain is that of h0: it fulfils with the value h0
\* returns; a rejection raised in a handler hk reaches the caller as a
\* rejection unless a handler before hk catches it; a handler that throws
\* synchronously yields a rejection too, not an exception at the call site.
C29_ChainOutcome ==
  last.op = "compose" =>
    /\ last.fns[1] = "return" => last.ret.outcome = Fulfilled(Str("hi"))
    /\ \A k \in Raisers : ~Before(k, {"catch"}) => last.ret.outcome.state = "rejected"
    /\ last.ret.outcome.state # "thrown"

\* C29, amended: the same, where the rejection of hk reaches the caller unless
\* a handler before hk catches it or settles without awaiting its continuation.
C29_ChainOutcomeAwaited ==
  last.op = "compose" =>
    /\ last.fns[1] = "return" => last.ret.outcome = Fulfilled(Str("hi"))
    /\ \A k \in Raisers :
         ~Before(k, {"catch", "drop"}) =>
           /\ last.ret.outcome.state = "rejected"
           /\ last.ret.outcome.value = Error("Omg error")
    /\ last.ret.outcome.state # "thrown"

\* C29's case: the third handler throws synchronously, the first two are not
\* async and pass the exception on, and the caller gets a rejection.
C29_Witness ==
  /\ last.op = "compose"
  /\ last.fns = <<"pass", "pass", "throw">>
  /\ Len(last.ret.calls) = 3
  /\ last.ret.outcome = Rejected(Error("Omg error"))

(***************************************************************************)
(* The default error converter on handler errors that differ in message    *)
(* and stack only, in development and in production mode.                  *)
(***************************************************************************)
\* new Error(message), thrown where the stack says.
ErrorAt(message, stack) ==
  [k |-> "error", message |-> Str(message), status |-> Undefined, body |-> Undefined,
   stack |-> Str(stack)]

HandlerErrors ==
  {ErrorAt("Omg error", "Error: Omg error at handler"),
   ErrorAt("Disk /var/db full", "Error: Disk /var/db full at store"),
   InvokeError("Custom Error", 527, Undefined)}

NextConvert ==
  \/ Connections
  \/ Turn /\ routes = <<>> /\ registerRoute("/hello")
  \/ \E c \in Client, m \in Invokes : Turn /\ onMessage(c, m)
  \/ \E inv \in BagToSet(invocations), err \in HandlerErrors, isDev \in BOOLEAN :
        Turn /\ invokeCatch(inv, err, isDev, Throws)
  \/ turnEnds

InitConvert == Start /\ tracking = {} /\ invokeErrorConverter = "default"

SpecConvert == InitConvert /\ [][NextConvert]_vars

\* The frame that answers invoke id with the bare 500 payload.
Bare500(id) ==
  [type |-> ERROR, id |-> id, path |-> Null,
   body |-> Obj([status |-> Num(500), message |-> Str("Internal Server Error")])]

\* C31: under the default converter a rejection without a status is answered,
\* in production mode, with exactly {status: 500, message: "Internal Server
\* Error"} and no body, the same frame whatever the error's message and stack
\* are; in development mode the payload carries the error's message and, as
\* body, its stack.
C31_ProductionHidesError ==
  (last.op = "invokeCatch" /\ last.err.status = Undefined) =>
    /\ Len(sent) = 1
    /\ sent[1].to = last.client
    /\ IF last.isDev
         THEN sent[1].frame =
                [type |-> ERROR, id |-> last.id, path |-> Null,
                 body |-> Obj([status |-> Num(500), message |-> last.err.message,
                               body |-> last.err.stack])]
         ELSE /\ sent[1].frame = Bare500(last.id)
              /\ \A other \in HandlerErrors :
                   other.status = Undefined =>
                     encodeFrame(ERROR, defaultErrorConverter(other, FALSE),
                                 last.id, Null) = sent[1].frame

\* C31's case: in production mode the error about the disk was answered on an
\* open connection.
C31_Witness ==
  /\ last.op = "invokeCatch"
  /\ ~last.isDev
  /\ last.err = ErrorAt("Disk /var/db full", "Error: Disk /var/db full at store")
  /\ sent # <<>> /\ sent[1].ok

\* C32: no path of the registry maps to an empty client set: the entry of a
\* path goes with its last subscriber, whether unsubscribeClient,
\* unsubscribeAll or the client's disconnect removed it.
C32_NoEmptyEntry == \A p \in DOMAIN subscriptions : subscriptions[p] # {}

\* C33: for every client c ever accepted, open or not, and every path p: p is
\* in c.subscriptions exactly when c is in the registry's subscriber set of p.
C33_SymmetryForAll ==
  \A c \in Accepted, p \in Paths : p \in csubs[c] <=> c \in Subscribers(p)

(***************************************************************************)
(* Accepting connections under an id generator given with setIdGen, which  *)
(* may return an id it has returned before.                                *)
(***************************************************************************)
NextIdGen ==
  \/ \E i \in Ids : Turn /\ onConnection(i)
  \/ \E c \in Client : Turn /\ handleClose(c)
  \/ \E c \in Client, p \in Paths : Turn /\ Live(c) /\ subscribeClient(c, p, Undefined)
  \/ \E c \in Client, p \in Paths : Turn /\ Live(c) /\ unsubscribeClient(c, p)
  \/ \E p \in Paths, d \in Data : Turn /\ publish(p, d)
  \/ turnEnds

InitIdGen == Start /\ tracking = {} /\ invokeErrorConverter = "default"

SpecIdGen == InitIdGen /\ [][NextIdGen]_vars

\* C34: no two live clients share an id: the id of an accepted connection is
\* generated again while it is a key of the clients map, so accepting never
\* overwrites an entry of the map and no two connections count as the same
\* subscriber.
C34_UniqueLiveIds ==
  /\ \A a, b \in Accepted : Live(a) /\ Live(b) /\ a # b => cid[a] # cid[b]
  /\ \A a \in Accepted : Live(a) => clients[cid[a]] = a

(***************************************************************************)
(* The catch callback of onInvoke with a listener of invokeError.  emit    *)
(* calls the listener inside the try block that surrounds the conversion,  *)
(* so an exception of the listener reaches the catch clause written for    *)
(* the converter.                                                          *)
(***************************************************************************)
ListenerKinds == {"returns", "throws"}

\* The error a throwing listener throws.
ListenerError == Error("Listener failed")

\* The try statement of the catch callback, listener being what the listener
\* of invokeError does when it is called.
ConvertListening(inv, err, isDev, custom, listener) ==
  LET c == Convert(inv, err, isDev, custom) IN
  IF /\ listener = "throws"
     /\ c.signals # <<>>
     /\ c.signals[1].sig = "invokeError"
    THEN [result |-> Obj([status |-> Num(500), message |-> STATUS_CODES(500)]),
          signals |-> c.signals \o <<[sig |-> "error", err |-> ListenerError]>>]
    ELSE c

invokeCatchListening(inv, err, isDev, custom, listener) ==
  /\ BagIn(inv, invocations)
  /\ invocations' = invocations (-) SetToBag({inv})
  /\ LET c == ConvertListening(inv, err, isDev, custom, listener) IN
     /\ sent' = <<send(inv.client, encodeFrame(ERROR, c.result, inv.msg.id, Null))>>
     /\ emitted' = c.signals
  /\ owed' = Account(owed, sent')
  /\ last' = [op |-> "invokeCatch", client |-> inv.client, id |-> inv.msg.id,
              err |-> err, isDev |-> isDev, custom |-> custom, msg |-> inv.msg,
              listener |-> listener]
  /\ UNCHANGED <<nclients, cid, readyState, csubs, clients, subscriptions, promises,
                 removed, tracking, nydusClient, routes, invokeErrorConverter>>
  /\ firstFrame' = First(firstFrame, sent')

NextListening ==
  \/ Connections
  \/ Turn /\ routes = <<>> /\ registerRoute("/hello")
  \/ \E c \in Client, m \in Invokes : Turn /\ onMessage(c, m)
  \/ \E inv \in BagToSet(invocations), err \in Errors, e \in Conversions,
        listener \in ListenerKinds :
        Turn /\ invokeCatchListening(inv, err, e.isDev, e.custom, listener)
  \/ turnEnds

InitListening == Start /\ tracking = {} /\ invokeErrorConverter \in {"default", "custom"}

SpecListening == InitListening /\ [][NextListening]_vars

\* What the configured converter did with the error of the rejection: the
\* payload it returned, or Throws.
Converted ==
  IF invokeErrorConverter = "default"
    THEN defaultErrorConverter(last.err, last.isDev)
    ELSE last.custom

\* C35: whenever the configured converter returns a payload r for a handler
\* rejection, the Error frame sent to the client carries exactly r as its
\* data, whatever the listeners of invokeError do.
C35_FrameCarriesConverted ==
  (last.op = "invokeCatch" /\ Converted # Throws) =>
    /\ Len(sent) = 1
    /\ sent[1].to = last.client
    /\ sent[1].frame = encodeFrame(ERROR, Converted, last.id, Null)

\* The signals of the operation that are invokeError.
InvokeErrorSignals == SelectSeq(emitted, LAMBDA s : s.sig = "invokeError")

\* C36: invokeError is emitted for a handler rejection exactly when the
\* converter returned an object whose status is 500, and then once, with the
\* error, the client and the message; not for another status, a payload that
\* is no object, a converter that throws, nor for the 404 of an invoke no
\* route matches.
C36_InvokeErrorIffStatus500 ==
  /\ last.op = "invokeCatch" =>
       IF Converted # Throws /\ HasStatus(Converted, 500)
         THEN InvokeErrorSignals = <<[sig |-> "invokeError", err |-> last.err,
                                      client |-> last.client, msg |-> last.msg]>>
         ELSE InvokeErrorSignals = <<>>
  /\ last.op # "invokeCatch" => InvokeErrorSignals = <<>>

\* C36's cases: a converted status of 500 was signalled; a converted status
\* of 403 was sent without a signal.
C36_Witness ==
  /\ last.op = "invokeCatch"
  /\ invokeErrorConverter = "custom"
  /\ last.custom = Obj([status |-> Num(403)])
  /\ sent # <<>> /\ sent[1].ok
  /\ emitted = <<>>

(***************************************************************************)
(* Inbound frames of the types the server sends itself, as a client        *)
(* library would encode them, next to invokes and subscriptions.           *)
(***************************************************************************)
OtherFrames ==
  {Frame(WELCOME, Absent, Absent, Num(protocolVersion)),
   Frame(RESULT, Text("27"), Absent, Str("hi")),
   Frame(ERROR, Text("27"), Absent, Str("hi")),
   Frame(PUBLISH, Absent, Text("/a b"), Str("hi"))}

OtherFrameTexts == {encode(f.type, f.data, f.id, f.path) : f \in OtherFrames}

InvokeTexts == {encode(m.type, m.data, Text(m.id), Text(m.path)) : m \in Invokes}

NextOtherFrames ==
  \/ Connections
  \/ Turn /\ routes = <<>> /\ registerRoute("/hello")
  \/ \E c \in Client : Turn /\ Live(c) /\ subscribeClient(c, "/a b", Undefined)
  \/ \E c \in Client, msg \in OtherFrameTexts \cup InvokeTexts :
        Turn /\ onMessageText(c, msg)
  \/ \E inv \in BagToSet(invocations), v \in Data : Turn /\ invokeThen(inv, v)
  \/ turnEnds

InitOtherFrames == Start /\ tracking = {} /\ invokeErrorConverter = "default"

SpecOtherFrames == InitOtherFrames /\ [][NextOtherFrames]_vars

\* C37: an inbound Welcome, Result, Error or Publish frame is ignored: the
\* server sends nothing, starts no handler, emits no signal, leaves the
\* connection open and changes nothing of its state.
C37_OtherFramesIgnored ==
  [][(/\ last'.op = "onMessage"
      /\ last'.msg.type \in {WELCOME, RESULT, ERROR, PUBLISH})
       => /\ sent' = <<>>
          /\ emitted' = <<>>
          /\ UNCHANGED <<nclients, cid, readyState, csubs, clients, subscriptions,
                         promises, routes, invocations, invokeErrorConverter, owed,
                         firstFrame>>]_vars

\* C37's case: a Publish frame came in from an open client while a client was
\* subscribed to its path and an invoke was pending.
C37_Witness ==
  /\ last.op = "onMessage"
  /\ last.msg.type = PUBLISH
  /\ Subscribers("/a b") # {}
  /\ invocations # EmptyBag
  /\ readyState[last.client] = "open"

(***************************************************************************)
(* Invokes whose handlers stay pending, next to further invokes of the     *)
(* same and of other clients, subscriptions and publishes.                 *)
(***************************************************************************)
NextPending ==
  \/ Connections
  \/ Turn /\ routes = <<>> /\ registerRoute("/:who")
  \/ \E c \in Client : Turn /\ Live(c) /\ subscribeClient(c, "/hello", Undefined)
  \/ \E d \in Data : Turn /\ publish("/hello", d)
  \/ \E c \in Client, m \in Invokes : Turn /\ onMessage(c, m)
  \/ \E inv \in BagToSet(invocations), v \in Data : Turn /\ invokeThen(inv, v)
  \/ \E inv \in BagToSet(invocations) :
        Turn /\ invokeCatch(inv, Error("Omg error"), FALSE, Throws)
  \/ turnEnds

InitPending == Start /\ tracking = {} /\ invokeErrorConverter = "default"

SpecPending == InitPending /\ [][NextPending]_vars

\* C38: while handlers are pending, however long, the server can still
\* publish to every subscriber, dispatch or answer a further invoke of any
\* open client, and settle any of the pending invokes, whichever arrived
\* first; a reply goes to the client of its invoke with the id of its invoke.
C38_PendingDoesNotBlock ==
  /\ (Turn /\ invocations # EmptyBag) =>
       /\ \A d \in Data :
            ENABLED (/\ publish("/hello", d)
                     /\ Len(sent') = Cardinality(Subscribers("/hello")))
       /\ \A inv \in BagToSet(invocations), v \in Data :
            ENABLED (/\ invokeThen(inv, v)
                     /\ sent' = <<send(inv.client,
                                       encodeFrame(RESULT, v, inv.msg.id, Null))>>)
       /\ BagCardinality(invocations) < MaxInvokes =>
            \A c \in Accepted, m \in Invokes :
              readyState[c] = "open" =>
                ENABLED (/\ onMessage(c, m)
                         /\ invocations' # invocations \/ sent' # <<>>)
  /\ last.op \in {"invokeThen", "invokeCatch"} =>
       /\ Len(sent) = 1
       /\ sent[1].to = last.client
       /\ sent[1].frame.id = last.msg.id

\* C38's case: an invoke was answered on an open connection while another
\* invoke of the same client, with another id, is still pending.
C38_Witness ==
  /\ last.op = "invokeThen"
  /\ sent # <<>> /\ sent[1].ok
  /\ \E inv \in BagToSet(invocations) :
       inv.client = last.client /\ inv.msg.id # last.id

(***************************************************************************)
(* The reconnecting client of the client library (client/index.js), with   *)
(* opts.reconnectionAttempts given and no connectTimeout.  The transport   *)
(* opens or closes a connection; the application calls connect and         *)
(* disconnect; reconnect is called where the client calls it, in _onClose. *)
(* backo counts an attempt when duration() is asked for the delay, and     *)
(* reset() puts the count back to 0.                                       *)
(***************************************************************************)
MaxAttempts == 2

serverVars ==
  <<nclients, cid, readyState, csubs, clients, subscriptions, promises, removed,
    tracking, firstFrame, invokeVars>>

\* new NydusClient(host, opts).  timers counts the timeouts set by reconnect
\* that have neither fired nor been cleared; made is history: the
\* 'reconnecting' signals since the last open, give-up or connect call.
createClient(reconnectionAttempts) ==
  /\ nydusClient = NoClient
  /\ nydusClient' = [conn |-> Null, attempts |-> 0, backoffTimer |-> FALSE,
                     timers |-> 0, wasOpened |-> FALSE, skipReconnect |-> FALSE,
                     reconnectionAttempts |-> reconnectionAttempts, made |-> 0]
  /\ last' = [op |-> "createClient"]
  /\ sent' = <<>>
  /\ emitted' = <<>>
  /\ UNCHANGED serverVars

\* reconnect(): the client after the call and the signals emitted.
reconnect(cl) ==
  IF cl.conn # Null \/ cl.skipReconnect \/ cl.backoffTimer
    THEN [cl |-> cl, signals |-> <<>>]
  ELSE IF cl.attempts >= cl.reconnectionAttempts
    THEN [cl |-> [cl EXCEPT !.attempts = 0, !.made = 0],
          signals |-> <<[sig |-> "reconnect_failed"]>>]
    ELSE [cl |-> [cl EXCEPT !.backoffTimer = TRUE, !.timers = @ + 1,
                            !.attempts = @ + 1],
          signals |-> <<>>]

\* The callback of the timeout set by reconnect.
backoffTimeout ==
  /\ nydusClient # NoClient
  /\ nydusClient.timers > 0
  /\ LET cl == [nydusClient EXCEPT !.backoffTimer = FALSE, !.timers = @ - 1,
                                   !.made = @ + 1]
     IN /\ emitted' = <<[sig |-> "reconnecting", attempt |-> cl.attempts]>>
        /\ nydusClient' = IF cl.skipReconnect \/ cl.conn # Null
                            THEN cl
                            ELSE [cl EXCEPT !.conn = "opening"]
  /\ last' = [op |-> "backoffTimeout", before |-> nydusClient]
  /\ sent' = <<>>
  /\ UNCHANGED serverVars

connect ==
  /\ nydusClient # NoClient
  /\ nydusClient' = IF nydusClient.conn # Null
                      THEN nydusClient
                      ELSE [nydusClient EXCEPT !.skipReconnect = FALSE,
                                               !.wasOpened = FALSE,
                                               !.conn = "opening",
                                               !.made = 0]
  /\ last' = [op |-> "connect", before |-> nydusClient]
  /\ sent' = <<>>
  /\ emitted' = <<>>
  /\ UNCHANGED serverVars

\* disconnect(): conn.close() starts closing an opening or open connection;
\* its close event follows.
disconnect ==
  /\ nydusClient # NoClient
  /\ nydusClient' =
       [nydusClient EXCEPT
          !.skipReconnect = TRUE,
          !.backoffTimer = FALSE,
          !.timers = IF nydusClient.backoffTimer THEN @ - 1 ELSE @,
          !.conn = IF @ \in {"opening", "open"} THEN "closing" ELSE @]
  /\ last' = [op |-> "disconnect", before |-> nydusClient]
  /\ sent' = <<>>
  /\ emitted' = <<>>
  /\ UNCHANGED serverVars

\* _onOpen: the transport's open event.
onOpen ==
  /\ nydusClient # NoClient
  /\ nydusClient.conn = "opening"
  /\ nydusClient' = [nydusClient EXCEPT !.conn = "open", !.wasOpened = TRUE,
                                        !.attempts = 0, !.made = 0]
  /\ emitted' = <<[sig |-> "connect"]>>
  /\ last' = [op |-> "onOpen", before |-> nydusClient]
  /\ sent' = <<>>
  /\ UNCHANGED serverVars

\* _onClose: the transport's close event, of a connection that failed to
\* open, was lost, or was closed by disconnect.
onClose ==
  /\ nydusClient # NoClient
  /\ nydusClient.conn # Null
  /\ LET closed == [nydusClient EXCEPT !.conn = Null, !.wasOpened = FALSE]
         r == reconnect(closed)
     IN /\ nydusClient' = r.cl
        /\ emitted' = <<[sig |-> IF nydusClient.wasOpened THEN "disconnect"
                                 ELSE "connect_failed"]>> \o r.signals
  /\ last' = [op |-> "onClose", before |-> nydusClient]
  /\ sent' = <<>>
  /\ UNCHANGED serverVars

NextClient ==
  \/ \E n \in 1 .. MaxAttempts : Turn /\ createClient(n)
  \/ Turn /\ connect
  \/ Turn /\ disconnect
  \/ Turn /\ onOpen
  \/ Turn /\ onClose
  \/ Turn /\ backoffTimeout
  \/ turnEnds

InitClient == Start /\ tracking = {} /\ invokeErrorConverter = "default"

SpecClient == InitClient /\ [][NextClient]_vars

\* reconnect, as _onClose called it, found the attempts used up.
GaveUp ==
  /\ last.op = "onClose"
  /\ ~last.before.skipReconnect
  /\ ~last.before.backoffTimer
  /\ last.before.attempts >= last.before.reconnectionAttempts

\* C39: the k-th consecutive reconnection attempt emits 'reconnecting' with
\* the number k; a successful open resets the count; at most one backoff
\* timer is pending at a time; and once the count has reached
\* reconnectionAttempts, 'reconnect_failed' is emitted and no attempt made.
C39_ReconnectAttempts ==
  nydusClient # NoClient =>
    /\ \A k \in DOMAIN emitted :
         emitted[k].sig = "reconnecting" => emitted[k].attempt = nydusClient.made
    /\ last.op = "onOpen" => nydusClient.attempts = 0
    /\ nydusClient.timers <= 1
    /\ GaveUp => /\ \E k \in DOMAIN emitted : emitted[k].sig = "reconnect_failed"
                 /\ nydusClient.timers = 0
                 /\ nydusClient.conn = Null

(***************************************************************************)
(* Initial data, resolved or promised, next to publishes on the same       *)
(* path.  The history of a pending promise tells whether a frame of        *)
(* publish has gone to its client since the subscribeClient call.          *)
(***************************************************************************)
NextOrder ==
  \/ Connections
  \/ \E c \in Client, d \in Data \cup {Promise} :
        Turn /\ Live(c) /\ subscribeClient(c, "/hello", d)
  \/ \E c \in Client : Turn /\ Live(c) /\ unsubscribeClient(c, "/hello")
  \/ \E d \in Data : Turn /\ publish("/hello", d)
  \/ Resolution
  \/ turnEnds

InitOrder == Start /\ tracking = {"order"} /\ invokeErrorConverter = "default"

SpecOrder == InitOrder /\ [][NextOrder]_vars

\* subscribeClient has just subscribed its client with resolved initial data.
SubscribesWithData ==
  /\ last'.op = "subscribeClient"
  /\ last'.data \in Data
  /\ last'.client \notin Subscribers(last'.path)

\* The initial data is sent to the client within the call, so that it is
\* ahead of every frame a later call sends.
SentWithinCall ==
  /\ Len(sent') = 1
  /\ sent'[1].to = last'.client
  /\ IsPublish(sent'[1], last'.path, last'.data)
  /\ promises' = promises

\* C40, as stated: whether the initial data d of subscribeClient(c, p, d) is
\* a resolved value or a promise, its Publish frame is sent to c before any
\* frame of a publish(p, ...) call made after the subscribeClient call.
C40_InitialDataFirst ==
  [][/\ SubscribesWithData => SentWithinCall
     /\ (last'.op = "resolveInitialData" /\ sent' # <<>>) => ~last'.overtaken]_vars

\* C40, amended: the same for initial data that is a resolved value.
C40_ResolvedInitialDataFirst == [][SubscribesWithData => SentWithinCall]_vars

\* C40's case: the first client has been subscribed with resolved initial
\* data, on an open connection, while the promised initial data of the other
\* subscriber of the path is pending.
C40_Witness ==
  /\ last.op = "subscribeClient" /\ last.data \in Data
  /\ last.client = 1
  /\ sent # <<>> /\ sent[1].ok
  /\ \E pr \in BagToSet(promises) : pr.client = 2 /\ pr.path = last.path
====
